---- MODULE Spec2Model ----
(***************************************************************************)
(* Organiq core: the node engine (lib/organiq.js: device registry, proxy   *)
(* registry, gateway table, authority resolution, dispatch) and the        *)
(* WebSocket link session (lib/transports/websocket.js).                   *)
(*                                                                         *)
(* One node is modelled together with the link sessions opened on it.  The *)
(* remote peer of every session, the application code calling the node's   *)
(* API and the native devices are the environment: their inputs are drawn  *)
(* from small sets.  Every JavaScript handler is one atomic action (the     *)
(* event loop runs a handler to completion); a handler that throws keeps    *)
(* the mutations it made before the throw.                                 *)
(*                                                                         *)
(* JavaScript scalars (device ids, connids, results, error texts) are      *)
(* sequences of string tokens, a device id being the sequence of its       *)
(* characters, so that lower-casing, split(':') and join(':') are computed *)
(* as the code computes them.                                              *)
(***************************************************************************)
EXTENDS Integers, Sequences, FiniteSets, TLC

VARIABLES
  defaultDomain,     \* Organiq.defaultDomain
  devices,           \* Organiq.devices: insertion-ordered map deviceid -> device
  proxies,           \* Organiq.proxies: deviceid -> array of LocalDeviceProxy
  gateways,          \* Organiq.gateways: domain -> gateway (the session that owns it)
  listeners,         \* EventEmitter state: object -> array of listeners
  ws,                \* per session: state of the underlying socket
  options,           \* per session: options.gateway / options.domain
  connDevices,       \* per session: closure variable `devices` (by connid)
  connProxies,       \* per session: closure variable `proxies` (by deviceid)
  proxyConnections,  \* per session: closure variable `proxyConnections`
  requests,          \* per session: closure variable `requests` (keys = reqids)
  reqid,             \* per session: closure variable `_reqid`
  deferreds,         \* per session: the deferred made by sendRequest, by reqid
  peerReqid,         \* per session: last reqid the remote peer used for a request
  responses,         \* per session: RESPONSE frames sent so far, per peer reqid
  answers,           \* per session: what the peer's RESPONSE for a reqid carried
  handles,           \* the proxies the application holds (results of connect)
  stack,             \* Organiq.stack: the middleware handlers, in use() order
  trace,             \* what the last handler called, in the order of the calls
  prior,             \* the registries as they were before the last register()
  sent,              \* frames put on the wire by the last handler
  last,              \* the last handler run, its arguments and its outcome
  master             \* the node at the other end of session 1, when there is
                     \* one: its state, and the frames on the wire between them

vars == << defaultDomain, devices, proxies, gateways, listeners, ws, options,
           connDevices, connProxies, proxyConnections, requests, reqid,
           deferreds, peerReqid, responses, answers, handles, stack, trace,
           prior, sent, last, master >>

----------------------------------------------------------------------------
(* Bounds of the model *)

MaxReq == 2          \* outgoing requests per session (cap of _reqid)
MaxPeerReq == 2      \* requests the peer sends per session
MaxProxies == 2      \* length of one Proxy Registry list
MaxStack == 2        \* middleware functions given to use()
MaxSubs == 1         \* listeners the application puts on one proxy
MaxLinkReq == 4      \* outgoing requests of a node linked to another node
MaxEmits == 1        \* events the device emits on a node linked to another

\* the link sessions that may be opened on the node
Sessions == {1, 2}

----------------------------------------------------------------------------
(* JavaScript values *)

UNDEFINED == << "undefined" >>
JSTrue == << "true" >>
JSFalse == << "false" >>
\* Array.isArray(v): an array is written with its brackets
isArray(v) == v # << >> /\ Head(v) = "["
NoObject == [kind |-> "none", id |-> << >>, s |-> 0, connid |-> << >>,
             pub |-> FALSE, n |-> 0]

\* Native devices offered to register(): an EventEmitter, and a plain object
\* that has `on` but no removeAllListeners (the device of the e2e tests).
EmitterDevice == [kind |-> "EventEmitter", id |-> << >>, s |-> 0,
                  connid |-> << >>, pub |-> FALSE, n |-> 1]
PlainDevice == [kind |-> "OnOnly", id |-> << >>, s |-> 0,
                connid |-> << >>, pub |-> FALSE, n |-> 1]
CoreDevice == [kind |-> "OrganiqCoreDevice", id |-> << >>, s |-> 0,
               connid |-> << >>, pub |-> FALSE, n |-> 1]
NativeDevices == {EmitterDevice, PlainDevice}

\* typeof device.on === 'function'
hasOn(o) == o.kind \in {"EventEmitter", "OnOnly", "LocalDeviceProxy",
                        "WebSocketDeviceProxy"}
\* typeof device.removeAllListeners === 'function'
hasRemoveAllListeners(o) == o.kind \in {"EventEmitter", "LocalDeviceProxy",
                                        "WebSocketDeviceProxy"}
\* the `deviceid` property of an object (not the constructor's closure)
deviceidOf(o) == IF o.kind = "LocalDeviceProxy" \/ o.pub THEN o.id
                 ELSE UNDEFINED

----------------------------------------------------------------------------
(* Maps.  Has/Get/Put/Del work on functions with a dynamic domain; the O*  *)
(* operators on insertion-ordered maps (sequences of [k, v]), for objects   *)
(* the code enumerates with for-in.                                        *)

EmptyMap == [x \in {} |-> 0]
Has(f, k) == k \in DOMAIN f
Put(f, k, v) == [x \in (DOMAIN f) \cup {k} |-> IF x = k THEN v ELSE f[x]]
Del(f, k) == [x \in (DOMAIN f) \ {k} |-> f[x]]

OKeys(m) == {m[i].k : i \in 1..Len(m)}
OHas(m, k) == \E i \in 1..Len(m) : m[i].k = k
OGet(m, k) == m[CHOOSE i \in 1..Len(m) : m[i].k = k].v
OPut(m, k, v) ==
  IF OHas(m, k) THEN [i \in 1..Len(m) |-> IF m[i].k = k THEN [k |-> k, v |-> v]
                                          ELSE m[i]]
  ELSE Append(m, [k |-> k, v |-> v])
ODel(m, k) == SelectSeq(m, LAMBDA e : e.k # k)

\* Array.prototype.indexOf, 1-based; 0 when absent
indexOf(arr, x) ==
  IF \E i \in 1..Len(arr) : arr[i] = x
  THEN CHOOSE i \in 1..Len(arr) : arr[i] = x /\ \A j \in 1..(i-1) : arr[j] # x
  ELSE 0
\* Array.prototype.splice(idx, 1)
splice1(arr, idx) == [i \in 1..(Len(arr)-1) |-> IF i < idx THEN arr[i] ELSE arr[i+1]]

----------------------------------------------------------------------------
(* Authority resolution *)

toLowerChar(c) == IF c = "A" THEN "a" ELSE IF c = "B" THEN "b"
                  ELSE IF c = "E" THEN "e" ELSE c
toLowerCase(str) == [i \in 1..Len(str) |-> toLowerChar(str[i])]

RECURSIVE splitFrom(_, _, _)
splitFrom(str, parts, cur) ==
  IF str = << >> THEN Append(parts, cur)
  ELSE IF Head(str) = ":" THEN splitFrom(Tail(str), Append(parts, cur), << >>)
  ELSE splitFrom(Tail(str), parts, Append(cur, Head(str)))
\* String.prototype.split(':')
split(str) == splitFrom(str, << >>, << >>)

RECURSIVE join(_)
\* Array.prototype.join(':')
join(parts) == IF Len(parts) = 1 THEN parts[1]
               ELSE parts[1] \o << ":" >> \o join(Tail(parts))

NoGateway == 0
localAuthorityIfNoGateway == TRUE
domains == << >>
Wildcard == << "*" >>

\* a variant that looks for the '*' gateway first
authorityOf_wildcardFirst(W, parts) ==
  LET domain == parts[1]
      exact == IF Has(W.gateways, domain) THEN W.gateways[domain] ELSE NoGateway
      star == IF Has(W.gateways, Wildcard) THEN W.gateways[Wildcard] ELSE NoGateway
      gw == IF star # NoGateway THEN star ELSE exact
  IN IF domain = << >>
     THEN [deviceid |-> join(parts), domain |-> domain, gateway |-> NoGateway,
           isLocal |-> TRUE, isRoutable |-> FALSE, isValid |-> TRUE]
     ELSE [deviceid |-> join(parts), domain |-> domain, gateway |-> gw,
           isLocal |-> (gw = NoGateway), isRoutable |-> TRUE,
           isValid |-> TRUE]

\* getDeviceAuthority once the id is split: `parts` is the array after the
\* default domain was put in front of a one-part id
authorityOf(W, parts) ==
  LET domain == parts[1]
      exact == IF Has(W.gateways, domain) THEN W.gateways[domain] ELSE NoGateway
      star == IF Has(W.gateways, Wildcard) THEN W.gateways[Wildcard] ELSE NoGateway
      gw == IF exact # NoGateway THEN exact ELSE star
      isLocal == \E i \in 1..Len(domains) : domains[i] = domain
  IN IF domain = << >>
     THEN [deviceid |-> join(parts), domain |-> domain, gateway |-> NoGateway,
           isLocal |-> TRUE, isRoutable |-> FALSE, isValid |-> TRUE]
     ELSE IF localAuthorityIfNoGateway
     THEN [deviceid |-> join(parts), domain |-> domain, gateway |-> gw,
           isLocal |-> (gw = NoGateway), isRoutable |-> TRUE,
           isValid |-> TRUE]
     ELSE [deviceid |-> join(parts), domain |-> domain,
           gateway |-> IF isLocal THEN NoGateway ELSE gw,
           isLocal |-> isLocal, isRoutable |-> TRUE,
           isValid |-> (isLocal \/ gw # NoGateway)]

\* parts.length === 1: parts[1] = parts[0]; parts[0] = this.defaultDomain
withDefaultDomain(W, parts) ==
  IF Len(parts) = 1 THEN << W.defaultDomain, parts[1] >> ELSE parts

getDeviceAuthority(W, deviceid) ==
  IF deviceid = UNDEFINED
  THEN \* deviceid.toLowerCase() throws; the catch block reports it
       [deviceid |-> UNDEFINED, domain |-> UNDEFINED, gateway |-> NoGateway,
        isLocal |-> FALSE, isRoutable |-> FALSE, isValid |-> FALSE]
  ELSE authorityOf(W, withDefaultDomain(W, split(toLowerCase(deviceid))))

----------------------------------------------------------------------------
(* The state as one record, so that a handler is a function from the state *)
(* before it to the state after it.  `threw` and `ret` are the handler's    *)
(* outcome: whether it ended in an exception, and what it returned.         *)

World ==
  [defaultDomain |-> defaultDomain, devices |-> devices, proxies |-> proxies,
   gateways |-> gateways, listeners |-> listeners, ws |-> ws,
   options |-> options, connDevices |-> connDevices,
   connProxies |-> connProxies, proxyConnections |-> proxyConnections,
   requests |-> requests, reqid |-> reqid, deferreds |-> deferreds,
   peerReqid |-> peerReqid, responses |-> responses, answers |-> answers,
   handles |-> handles, stack |-> stack,
   trace |-> << >>, sent |-> << >>, threw |-> FALSE,
   prev |-> [kind |-> "undefined", val |-> UNDEFINED, obj |-> NoObject,
             s |-> 0, rid |-> 0],
   ret |-> [kind |-> "undefined", val |-> UNDEFINED, obj |-> NoObject,
            s |-> 0, rid |-> 0]]

Ret(kind, val) == [kind |-> kind, val |-> val, obj |-> NoObject, s |-> 0, rid |-> 0]
RetObj(o) == [kind |-> "object", val |-> UNDEFINED, obj |-> o, s |-> 0, rid |-> 0]
RetPromise(s, rid) == [kind |-> "promise", val |-> UNDEFINED, obj |-> NoObject,
                       s |-> s, rid |-> rid]
Throw(W) == [W EXCEPT !.threw = TRUE]

\* the objects the state refers to
Range(f) == {f[x] : x \in DOMAIN f}
RangeAll(f) == UNION {Range(f[x]) : x \in DOMAIN f}
Referenced(W) ==
  {W.devices[i].v : i \in 1..Len(W.devices)}
    \cup RangeAll(W.proxies)
    \cup UNION {Range(W.connDevices[s]) : s \in Sessions}
    \cup UNION {{W.connProxies[s][i].v : i \in 1..Len(W.connProxies[s])} : s \in Sessions}
    \cup UNION {RangeAll(W.proxyConnections[s]) : s \in Sessions}
    \cup UNION {{W.deferreds[s][r].then.obj : r \in DOMAIN W.deferreds[s]} : s \in Sessions}
LiveObjects(W) == Referenced(W) \cup DOMAIN W.listeners \cup W.handles

\* identity of a newly constructed object: a serial no live object carries
NewSerial(W) ==
  LET used == {o.n : o \in LiveObjects(W)}
  IN CHOOSE n \in 1..(Cardinality(used) + 1) :
       n \notin used /\ \A m \in 1..(n-1) : m \in used

\* new LocalDeviceProxy(organiq, deviceid)
LocalDeviceProxy(W, deviceid) ==
  [kind |-> "LocalDeviceProxy", id |-> deviceid, s |-> 0, connid |-> << >>,
   pub |-> FALSE, n |-> NewSerial(W)]
\* new WebSocketDeviceProxy(connection, deviceid, connid); `pub` tells whether
\* the deviceid and connid properties were set on it afterwards
WebSocketDeviceProxy(W, s, deviceid, connid, pub) ==
  [kind |-> "WebSocketDeviceProxy", id |-> deviceid, s |-> s, connid |-> connid,
   pub |-> pub, n |-> NewSerial(W)]
\* the promise of the deferred of request rid on session s, as an object
PromiseObject(s, rid) ==
  [kind |-> "Promise", id |-> << >>, s |-> s, connid |-> << >>, pub |-> FALSE,
   n |-> rid]

\* EventEmitter.on / removeAllListeners
on(W, o, l) ==
  [W EXCEPT !.listeners = Put(@, o, (IF Has(@, o) THEN @[o] ELSE << >>) \o << l >>)]
removeAllListeners(W, o) == [W EXCEPT !.listeners = Del(@, o)]
listenersOf(W, o) == IF Has(W.listeners, o) THEN W.listeners[o] ELSE << >>
\* the application lets go of proxy o: once nothing refers to the object any
\* more, it is gone and its listeners with it
Forget(W, o) ==
  [W EXCEPT !.handles = @ \ {o},
            !.listeners = IF o \in Referenced(W) THEN @ ELSE Del(@, o)]

\* the two kinds of listener the code installs
CoreListener(ev, deviceid) ==
  [kind |-> "organiq", ev |-> ev, id |-> deviceid, s |-> 0, connid |-> << >>,
   act |-> "return"]
LinkListener(ev, s, deviceid, connid) ==
  [kind |-> "websocket", ev |-> ev, id |-> deviceid, s |-> s, connid |-> connid,
   act |-> "return"]
\* a listener of the application on a proxy it holds; `act` is what the
\* callback does: "return", "throw", or "disconnect" (it releases the proxy
\* it is subscribed to with organiq.disconnect)
AppListener(ev, act) ==
  [kind |-> "application", ev |-> ev, id |-> << >>, s |-> 0, connid |-> << >>,
   act |-> act]

----------------------------------------------------------------------------
(* Frames *)

Frame(method, deviceid, connid, value) ==
  [method |-> method, reqid |-> 0, deviceid |-> deviceid, connid |-> connid,
   identifier |-> UNDEFINED, value |-> value, success |-> FALSE,
   res |-> UNDEFINED, err |-> UNDEFINED]
ResponseFrame(rid, deviceid, success, res, err) ==
  [method |-> "RESPONSE", reqid |-> rid, deviceid |-> deviceid,
   connid |-> UNDEFINED, identifier |-> UNDEFINED, value |-> UNDEFINED,
   success |-> success,
   res |-> res, err |-> err]

gatewayCommands == {"CONNECT", "DISCONNECT", "REGISTER", "DEREGISTER"}
downstreamCommands == {"GET", "SET", "INVOKE", "SUBSCRIBE", "DESCRIBE", "CONFIG"}
upstreamCommands == {"PUT", "NOTIFY"}
responseCommand == {"RESPONSE"}
isValidRequestMethod(method) ==
  method \in responseCommand \cup downstreamCommands \cup gatewayCommands
             \cup upstreamCommands

\* what runs when the promise of an outgoing request settles
Application == 0 - 1
NoThen == [k |-> "none", s |-> 0, rid |-> 0, id |-> << >>, obj |-> NoObject]
ThenConnect(deviceid) == [NoThen EXCEPT !.k = "connect", !.id = deviceid]
ThenDisconnect(proxy) == [NoThen EXCEPT !.k = "disconnect", !.obj = proxy]
ThenRespond(s, msg) ==
  [NoThen EXCEPT !.k = "respond", !.s = s, !.rid = msg.reqid, !.id = msg.deviceid]

\* ws.send(data) without a callback: throws when the socket is not open
sendResponse(W, s, req, res) ==
  IF W.ws[s] # "open" THEN Throw(W)
  ELSE [W EXCEPT
          !.sent = Append(@, [s |-> s, frame |->
                     ResponseFrame(req.reqid, req.deviceid, TRUE, res, UNDEFINED)]),
          !.responses[s] = Put(@, req.reqid,
                     (IF Has(@, req.reqid) THEN @[req.reqid] ELSE 0) + 1)]

sendFailureResponse(W, s, req, err) ==
  IF W.ws[s] # "open" THEN Throw(W)
  ELSE [W EXCEPT
          !.sent = Append(@, [s |-> s, frame |->
                     ResponseFrame(req.reqid, req.deviceid, FALSE, UNDEFINED, err)]),
          !.responses[s] = Put(@, req.reqid,
                     (IF Has(@, req.reqid) THEN @[req.reqid] ELSE 0) + 1)]

registerProxyConnection(W, s, deviceid, proxy) ==
  [W EXCEPT !.proxyConnections[s] =
     Put(@, deviceid, (IF Has(@, deviceid) THEN @[deviceid] ELSE << >>) \o << proxy >>)]

deregisterProxyConnection(W, s, deviceid, proxy) ==
  LET arr == IF Has(W.proxyConnections[s], deviceid)
             THEN W.proxyConnections[s][deviceid] ELSE << >>
      idx == indexOf(arr, proxy)
  IN IF idx > 0
     THEN IF Len(arr) = 1
          THEN [W EXCEPT !.proxyConnections[s] = Del(@, deviceidOf(proxy))]
          ELSE [W EXCEPT !.proxyConnections[s][deviceid] = splice1(arr, idx)]
     ELSE W

\* deferred.resolve / deferred.reject for request rid of session s, with the
\* callbacks chained on its promise.  An exception inside a promise callback
\* is swallowed by the promise.
settle(W, s, rid, state, value) ==
  LET d == W.deferreds[s][rid]
      W1 == [W EXCEPT !.deferreds[s][rid].state = state,
                      !.deferreds[s][rid].value = value]
      req == [reqid |-> d.then.rid, deviceid |-> d.then.id]
      W2 == CASE d.then.k = "connect" /\ state = "resolved" ->
                   \* WebSocketGateway.connect: .then(function(connid) {...})
                   LET proxy == WebSocketDeviceProxy(W1, s, d.then.id, value, TRUE)
                       W1a == registerProxyConnection(W1, s, d.then.id, proxy)
                   IN IF d.then.s = Application
                      THEN [W1a EXCEPT !.handles = @ \cup {proxy}]
                      ELSE W1a
              [] d.then.k = "disconnect" /\ state = "resolved" ->
                   \* WebSocketGateway.disconnect: .then(function(res) {...})
                   deregisterProxyConnection(W1, s, deviceidOf(d.then.obj), d.then.obj)
              [] d.then.k = "respond" /\ state = "resolved" ->
                   \* processMessage: promise.then(sendResponse)
                   sendResponse(W1, d.then.s, req, value)
              [] d.then.k = "respond" /\ state = "rejected" ->
                   \* processMessage: .catch(sendFailureResponse)
                   sendFailureResponse(W1, d.then.s, req, value)
              [] OTHER -> W1
  IN [W2 EXCEPT !.threw = W.threw]

\* a variant that numbers a request by the count of pending requests
sendRequest_countsPending(W, s, msg, then) ==
  LET rid == Cardinality(W.requests[s]) + 1
      W1 == [W EXCEPT !.reqid[s] = rid,
                      !.requests[s] = @ \cup {rid},
                      !.deferreds[s] = Put(@, rid, [state |-> "pending",
                                         value |-> UNDEFINED, then |-> then]),
                      !.ret = RetPromise(s, rid)]
  IN IF W.ws[s] = "open"
     THEN [W1 EXCEPT !.sent = Append(@, [s |-> s, frame |-> [msg EXCEPT !.reqid = rid]])]
     ELSE settle([W1 EXCEPT !.requests[s] = @ \ {rid}], s, rid, "rejected",
                 << "not opened" >>)

sendRequest(W, s, msg, then) ==
  LET rid == W.reqid[s] + 1
      W1 == [W EXCEPT !.reqid[s] = rid,
                      !.requests[s] = @ \cup {rid},
                      !.deferreds[s] = Put(@, rid, [state |-> "pending",
                                         value |-> UNDEFINED, then |-> then]),
                      !.ret = RetPromise(s, rid)]
  IN IF W.ws[s] = "open"
     THEN [W1 EXCEPT !.sent = Append(@, [s |-> s, frame |-> [msg EXCEPT !.reqid = rid]])]
     ELSE \* ack(err): the socket is not open
          settle([W1 EXCEPT !.requests[s] = @ \ {rid}], s, rid, "rejected",
                 << "not opened" >>)

\* a variant that completes the promise and leaves the entry in `requests`
handleResponse_keepsEntry(W, s, msg) ==
  IF msg.reqid \notin W.requests[s]
  THEN Throw(W)
  ELSE IF msg.success THEN settle(W, s, msg.reqid, "resolved", msg.res)
       ELSE settle(W, s, msg.reqid, "rejected", msg.err)

handleResponse(W, s, msg) ==
  IF msg.reqid \notin W.requests[s]
  THEN \* deferred is undefined: deferred.resolve throws a TypeError
       Throw(W)
  ELSE LET W1 == [W EXCEPT !.requests[s] = @ \ {msg.reqid}]
       IN IF msg.success THEN settle(W1, s, msg.reqid, "resolved", msg.res)
          ELSE settle(W1, s, msg.reqid, "rejected", msg.err)

connectLocalDevice(W, s, deviceid, device, connid) ==
  LET W1 == IF hasOn(device)
            THEN on(on(W, device, LinkListener("notify", s, deviceid, connid)),
                    device, LinkListener("put", s, deviceid, connid))
            ELSE W
  IN [W1 EXCEPT !.connDevices[s] = Put(@, connid, device),
                !.ret = Ret("value", connid)]

disconnectLocalDevice(W, s, connid) ==
  IF ~Has(W.connDevices[s], connid) THEN [W EXCEPT !.ret = RetObj(NoObject)]
  ELSE LET device == W.connDevices[s][connid]
       IN IF ~hasRemoveAllListeners(device) THEN Throw(W)
          ELSE [removeAllListeners(W, device) EXCEPT
                  !.connDevices[s] = Del(@, connid), !.ret = RetObj(device)]

disconnectLocalDeviceByDeviceId(W, s, deviceid) ==
  IF \E c \in DOMAIN W.connDevices[s] : deviceidOf(W.connDevices[s][c]) = deviceid
  THEN \* this.connection is undefined inside the connection object
       Throw(W)
  ELSE [W EXCEPT !.ret = Ret("null", UNDEFINED)]

----------------------------------------------------------------------------
(* WebSocketGateway: the adapter registered in Organiq.gateways; gateway g *)
(* is the adapter of session g.                                            *)

WebSocketGateway_connect(W, g, deviceid) ==
  sendRequest(W, g, Frame("CONNECT", deviceid, UNDEFINED, UNDEFINED),
              ThenConnect(deviceid))

WebSocketGateway_disconnect(W, g, proxy) ==
  sendRequest(W, g, Frame("DISCONNECT", deviceidOf(proxy),
                          IF proxy.pub THEN proxy.connid ELSE UNDEFINED, UNDEFINED),
              ThenDisconnect(proxy))

WebSocketGateway_register(W, g, deviceid, device, connid) ==
  sendRequest(connectLocalDevice(W, g, deviceid, device, connid), g,
              Frame("REGISTER", deviceid, connid, UNDEFINED), NoThen)

WebSocketGateway_deregister(W, g, deviceid) ==
  LET W1 == disconnectLocalDeviceByDeviceId(W, g, deviceid)
  IN IF W1.threw THEN W1
     ELSE IF W1.ret.kind = "null"
     THEN [W1 EXCEPT !.ret = Ret("rejected", << "device was not registered." >>)]
     ELSE sendRequest(W1, g, Frame("DEREGISTER", deviceid, W1.ret.val, UNDEFINED),
                      NoThen)

----------------------------------------------------------------------------
(* Organiq: the registries *)

\* a variant without the check for an already registered deviceid
register_overwrites(W, deviceid0, device, connid) ==
  LET authority == getDeviceAuthority(W, deviceid0)
      deviceid == authority.deviceid
  IN IF ~authority.isValid
     THEN [W EXCEPT !.ret = Ret("rejected", << "invalid deviceid" >>)]
     ELSE
       LET W1 == IF hasOn(device)
                 THEN on(on(W, device, CoreListener("put", deviceid)),
                         device, CoreListener("notify", deviceid))
                 ELSE W
           W2 == [W1 EXCEPT !.devices = OPut(@, deviceid, device)]
       IN IF authority.gateway # NoGateway
          THEN LET proxy == LocalDeviceProxy(W2, deviceid)
                   W3 == [W2 EXCEPT !.proxies = Put(@, deviceid,
                            (IF Has(@, deviceid) THEN @[deviceid] ELSE << >>)
                              \o << proxy >>)]
               IN WebSocketGateway_register(W3, authority.gateway, deviceid,
                                            proxy, connid)
          ELSE [W2 EXCEPT !.ret = Ret("resolved", deviceid)]

register(W, deviceid0, device, connid) ==
  LET authority == getDeviceAuthority(W, deviceid0)
      deviceid == authority.deviceid
  IN IF ~authority.isValid
     THEN [W EXCEPT !.ret = Ret("rejected", << "invalid deviceid" >>)]
     ELSE IF OHas(W.devices, deviceid)
     THEN [W EXCEPT !.ret = Ret("rejected",
             << "Register called for already registered deviceid" >>)]
     ELSE
       LET W1 == IF hasOn(device)
                 THEN on(on(W, device, CoreListener("put", deviceid)),
                         device, CoreListener("notify", deviceid))
                 ELSE W
           W2 == [W1 EXCEPT !.devices = OPut(@, deviceid, device)]
       IN IF authority.gateway # NoGateway
          THEN LET proxy == LocalDeviceProxy(W2, deviceid)
                   W3 == [W2 EXCEPT !.proxies = Put(@, deviceid,
                            (IF Has(@, deviceid) THEN @[deviceid] ELSE << >>)
                              \o << proxy >>)]
               IN WebSocketGateway_register(W3, authority.gateway, deviceid,
                                            proxy, connid)
          ELSE [W2 EXCEPT !.ret = Ret("resolved", deviceid)]

\* a variant that treats an unregistered deviceid as already deregistered:
\* it drops the proxies kept for the id and reports success
deregister_idempotent(W, deviceid0) ==
  LET authority == getDeviceAuthority(W, deviceid0)
      deviceid == authority.deviceid
  IN IF ~authority.isValid
     THEN [W EXCEPT !.ret = Ret("rejected", << "invalid deviceid" >>)]
     ELSE IF ~OHas(W.devices, deviceid)
     THEN [W EXCEPT !.proxies = Del(@, deviceid),
                    !.ret = Ret("resolved", deviceid)]
     ELSE
       LET device == OGet(W.devices, deviceid)
       IN IF ~hasRemoveAllListeners(device)
          THEN Throw(W)
          ELSE
            LET W1 == [removeAllListeners(W, device) EXCEPT
                         !.devices = ODel(@, deviceid)]
            IN IF authority.gateway # NoGateway
               THEN WebSocketGateway_deregister(
                      [W1 EXCEPT !.proxies = Del(@, deviceid)],
                      authority.gateway, deviceid)
               ELSE [W1 EXCEPT !.ret = RetObj(device)]

deregister(W, deviceid0) ==
  LET authority == getDeviceAuthority(W, deviceid0)
      deviceid == authority.deviceid
  IN IF ~authority.isValid
     THEN [W EXCEPT !.ret = Ret("rejected", << "invalid deviceid" >>)]
     ELSE IF ~OHas(W.devices, deviceid)
     THEN [W EXCEPT !.ret = Ret("rejected",
             << "deregister of unregistered device" >>)]
     ELSE
       LET device == OGet(W.devices, deviceid)
       IN IF ~hasRemoveAllListeners(device)
          THEN \* device.removeAllListeners is not a function
               Throw(W)
          ELSE
            LET W1 == [removeAllListeners(W, device) EXCEPT
                         !.devices = ODel(@, deviceid)]
            IN IF authority.gateway # NoGateway
               THEN WebSocketGateway_deregister(
                      [W1 EXCEPT !.proxies = Del(@, deviceid)],
                      authority.gateway, deviceid)
               ELSE [W1 EXCEPT !.ret = RetObj(device)]

\* a variant that serves a natively registered device with a local proxy,
\* whatever the authority of its id
connect_nativeFirst(W, deviceid0) ==
  LET authority == getDeviceAuthority(W, deviceid0)
      deviceid == authority.deviceid
  IN IF ~authority.isValid
     THEN [W EXCEPT !.ret = Ret("rejected", << "invalid deviceid" >>)]
     ELSE IF authority.isLocal \/ OHas(W.devices, deviceid)
     THEN LET proxy == LocalDeviceProxy(W, deviceid)
          IN [W EXCEPT !.proxies = Put(@, deviceid,
                          (IF Has(@, deviceid) THEN @[deviceid] ELSE << >>)
                            \o << proxy >>),
                       !.ret = RetObj(proxy)]
     ELSE WebSocketGateway_connect(W, authority.gateway, deviceid)

connect(W, deviceid0) ==
  LET authority == getDeviceAuthority(W, deviceid0)
      deviceid == authority.deviceid
  IN IF ~authority.isValid
     THEN [W EXCEPT !.ret = Ret("rejected", << "invalid deviceid" >>)]
     ELSE IF authority.isLocal
     THEN LET proxy == LocalDeviceProxy(W, deviceid)
          IN [W EXCEPT !.proxies = Put(@, deviceid,
                          (IF Has(@, deviceid) THEN @[deviceid] ELSE << >>)
                            \o << proxy >>),
                       !.ret = RetObj(proxy)]
     ELSE WebSocketGateway_connect(W, authority.gateway, deviceid)

\* a variant that removes the proxy from its list and keeps the emptied list
disconnect_keepsEmptyList(W, proxy) ==
  IF proxy = NoObject
  THEN Throw(W)
  ELSE
    LET authority == getDeviceAuthority(W, deviceidOf(proxy))
        deviceid == authority.deviceid
    IN IF ~authority.isValid
       THEN [W EXCEPT !.ret = Ret("rejected", << "invalid deviceid" >>)]
       ELSE IF authority.isLocal
       THEN LET arr == IF Has(W.proxies, deviceid) THEN W.proxies[deviceid]
                       ELSE << >>
                idx == indexOf(arr, proxy)
                W1 == [W EXCEPT !.ret = Ret("undefined", UNDEFINED)]
            IN IF idx > 0
               THEN [W1 EXCEPT !.proxies[deviceid] = splice1(arr, idx)]
               ELSE W1
       ELSE WebSocketGateway_disconnect(W, authority.gateway, proxy)

disconnect(W, proxy) ==
  IF proxy = NoObject
  THEN \* proxy.deviceid of undefined
       Throw(W)
  ELSE
    LET authority == getDeviceAuthority(W, deviceidOf(proxy))
        deviceid == authority.deviceid
    IN IF ~authority.isValid
       THEN [W EXCEPT !.ret = Ret("rejected", << "invalid deviceid" >>)]
       ELSE IF authority.isLocal
       THEN LET arr == IF Has(W.proxies, deviceid) THEN W.proxies[deviceid]
                       ELSE << >>
                idx == indexOf(arr, proxy)
                W1 == [W EXCEPT !.ret = Ret("undefined", UNDEFINED)]
            IN IF idx > 0
               THEN IF Len(arr) = 1
                    THEN [W1 EXCEPT !.proxies = Del(@, deviceid)]
                    ELSE [W1 EXCEPT !.proxies[deviceid] = splice1(arr, idx)]
               ELSE W1
       ELSE WebSocketGateway_disconnect(W, authority.gateway, proxy)

RECURSIVE registerGatewayFrom_anyGateway(_, _, _, _, _)
\* a variant that forwards every device that has a gateway as its authority
registerGatewayFrom_anyGateway(W, keys, i, gateway, connids) ==
  IF i > Len(keys) THEN W
  ELSE LET deviceid == keys[i]
           authority == getDeviceAuthority(W, deviceid)
       IN IF authority.gateway # NoGateway
          THEN LET proxy == LocalDeviceProxy(W, deviceid)
                   W1 == [W EXCEPT !.proxies = Put(@, deviceid,
                            (IF Has(@, deviceid) THEN @[deviceid] ELSE << >>)
                              \o << proxy >>)]
               IN registerGatewayFrom_anyGateway(
                    WebSocketGateway_register(W1, gateway, deviceid, proxy,
                                              connids[i]),
                    keys, i + 1, gateway, connids)
          ELSE registerGatewayFrom_anyGateway(W, keys, i + 1, gateway, connids)

RECURSIVE registerGatewayFrom(_, _, _, _, _)
\* registerGateway: the loop over this.devices, from index i of the keys
registerGatewayFrom(W, keys, i, gateway, connids) ==
  IF i > Len(keys) THEN W
  ELSE LET deviceid == keys[i]
           authority == getDeviceAuthority(W, deviceid)
       IN IF authority.gateway = gateway
          THEN LET proxy == LocalDeviceProxy(W, deviceid)
                   W1 == [W EXCEPT !.proxies = Put(@, deviceid,
                            (IF Has(@, deviceid) THEN @[deviceid] ELSE << >>)
                              \o << proxy >>)]
               IN registerGatewayFrom(
                    WebSocketGateway_register(W1, gateway, deviceid, proxy,
                                              connids[i]),
                    keys, i + 1, gateway, connids)
          ELSE registerGatewayFrom(W, keys, i + 1, gateway, connids)

\* a variant that replaces the gateway of a domain that has one
registerGateway_replaces(W, domain0, gateway, connids) ==
  LET domain == toLowerCase(domain0)
      W1 == [W EXCEPT !.gateways = Put(@, domain, gateway)]
      keys == [i \in 1..Len(W.devices) |-> W.devices[i].k]
  IN [registerGatewayFrom(W1, keys, 1, gateway, connids)
      EXCEPT !.ret = Ret("gatewayRegistered", domain)]

registerGateway(W, domain0, gateway, connids) ==
  LET domain == toLowerCase(domain0)
  IN IF Has(W.gateways, domain)
     THEN Throw(W)
     ELSE LET W1 == [W EXCEPT !.gateways = Put(@, domain, gateway)]
              keys == [i \in 1..Len(W.devices) |-> W.devices[i].k]
              W2 == IF localAuthorityIfNoGateway
                    THEN registerGatewayFrom(W1, keys, 1, gateway, connids)
                    ELSE W1
          IN [W2 EXCEPT !.ret = Ret("gatewayRegistered", domain)]

deregisterGateway(W, domain0) ==
  LET domain == toLowerCase(domain0)
  IN IF ~Has(W.gateways, domain)
     THEN Throw(W)
     ELSE [W EXCEPT !.gateways = Del(@, domain), !.ret = Ret("value", JSTrue)]

----------------------------------------------------------------------------
(* Organiq: the middleware stack and dispatch.  A middleware function is    *)
(* known by what it does with a request:                                    *)
(*   "forward"  return next()                                               *)
(*   "nothing"  calls next() and returns nothing                            *)
(*   "recover"  return next().catch(...): turns a failure into a value      *)
(*   "after"    calls next() and then throws                                *)
(*   "value"    returns a value without calling next()                      *)
(*   "throw"    throws without calling next()                               *)
(*   "silent"   neither calls next() nor returns a value                    *)

Handlers == {"forward", "nothing", "recover", "after", "value", "throw",
             "silent"}

\* Organiq.prototype.use; fns is the array of functions (one function is
\* wrapped into an array)
use(W, fns) ==
  IF fns = << >> THEN Throw(W)
  ELSE [W EXCEPT !.stack = @ \o fns, !.ret = Ret("this", UNDEFINED)]

\* a call made by the handler, appended to the record of its calls
Log(W, e, i, id, obj, k) ==
  [W EXCEPT !.trace = Append(@, [e |-> e, i |-> i, id |-> id, obj |-> obj,
                                 k |-> k])]

\* catch (err) { debug(...) }
caught(W) == [W EXCEPT !.threw = FALSE]

\* the arguments of a put or notify event: (metric, value), (event, args)
Args(identifier, value) == [identifier |-> identifier, value |-> value]

RECURSIVE emitFrom(_, _, _, _, _, _)
RECURSIVE fanOutFrom(_, _, _, _, _)
RECURSIVE next(_, _, _)
RECURSIVE layer(_, _, _, _)

\* finalHandlerUpstream: the loop over app.proxies[req.deviceid], from index
\* i; the array is the registry's own, so its length is read at every turn
fanOutFrom(W, deviceid, i, ev, args) ==
  LET arr == IF Has(W.proxies, deviceid) THEN W.proxies[deviceid] ELSE << >>
  IN IF i > Len(arr) THEN W
     ELSE fanOutFrom(
            caught(emitFrom(Log(W, "emit", i, deviceid, arr[i], ev), arr[i],
                            listenersOf(W, arr[i]), 1, ev, args)),
            deviceid, i + 1, ev, args)

\* proxy.emit('put', req.identifier, req.value) and
\* proxy.emit('notify', req.identifier, req.params)
finalHandlerUpstream(W, deviceid, ev, identifier, value) ==
  [fanOutFrom(W, deviceid, 1, ev, Args(identifier, value))
   EXCEPT !.ret = Ret("value", JSTrue)]

\* 'Device \'' + req.deviceid + '\' is not connected.'
NotConnected(deviceid) == << "Device '" >> \o deviceid \o << "' is not connected." >>

\* a variant that passes the value where the identifier belongs
CallArgs_dropsIdentifier(method, identifier, value) ==
  IF method \in {"SET", "INVOKE", "CONFIG"} THEN << value, value >>
  ELSE << value >>

\* the arguments finalHandlerDownstream passes to the method of the device:
\* the identifier, and for SET, INVOKE and CONFIG the value (the params)
CallArgs(method, identifier, value) ==
  IF method \in {"SET", "INVOKE", "CONFIG"} THEN << identifier, value >>
  ELSE << identifier >>

\* WebSocketDeviceProxy.sendRequest(method, identifier, value): the frame
WebSocketDeviceProxy_req(proxy, method, identifier, value) ==
  [Frame(method, proxy.id, proxy.connid,
         IF method \in {"SET", "INVOKE", "CONFIG"} THEN value ELSE UNDEFINED)
   EXCEPT !.identifier = identifier]

\* what the method of a native device does when it is called: `answer` is
\* the choice of the device, and the OrganiqCoreDevice supports GET and
\* DESCRIBE only
device_returns(device, method, answer) ==
  IF answer = "throw"
     \/ (device.kind = "OrganiqCoreDevice"
         /\ method \in {"SET", "INVOKE", "SUBSCRIBE", "CONFIG"})
  THEN Ret("thrown", << "device error" >>)
  ELSE IF device.kind = "OrganiqCoreDevice" THEN Ret("value", << "v" >>)
  ELSE IF answer = "undefined" THEN Ret("undefined", UNDEFINED)
  ELSE IF answer = "false" THEN Ret("value", JSFalse)
  ELSE Ret("value", << "v" >>)

\* x || true
orTrue(r) == IF r.kind = "undefined" \/ r.val = JSFalse THEN Ret("value", JSTrue)
             ELSE r

\* return device.get(...), return device.set(...) || true, ...
finalHandlerDownstream_returned(W1, device, method, r) ==
  [Log(W1, "answer", 0, r.val, device, r.kind)
   EXCEPT !.ret = IF r.kind # "thrown" /\ method \in {"SET", "INVOKE"}
                  THEN orTrue(r) ELSE r]

\* finalHandlerDownstream.  `answer` is what a native device does with the
\* call: "value" (returns a value), "undefined" (returns nothing) or "throw".
\* `then` is what the caller chains on a promise it gets back.  An exception
\* is the result "thrown".
finalHandlerDownstream(W, deviceid, method, identifier, value, answer, then) ==
  IF ~OHas(W.devices, deviceid)
  THEN [W EXCEPT !.ret = Ret("thrown", NotConnected(deviceid))]
  ELSE LET device == OGet(W.devices, deviceid)
           W1 == Log(W, "device", 0, CallArgs(method, identifier, value),
                     device, method)
       IN IF device.kind = "WebSocketDeviceProxy"
          THEN \* WebSocketDeviceProxy.prototype.get & co: this.sendRequest
               sendRequest(W, device.s,
                           WebSocketDeviceProxy_req(device, method, identifier,
                                                    value), then)
          ELSE finalHandlerDownstream_returned(
                 W1, device, method, device_returns(device, method, answer))

\* var downstream = req.isApplicationOriginated(): the request carries one
\* of the methods an application sends to a device
downstream(req) == req.method \in downstreamCommands

\* finalHandler = downstream ? finalHandlerDownstream : finalHandlerUpstream
finalHandler(W, req) ==
  IF downstream(req)
  THEN finalHandlerDownstream(W, req.deviceid, req.method, req.identifier,
                              req.value, req.answer, req.then)
  ELSE finalHandlerUpstream(W, req.deviceid,
                            IF req.method = "PUT" THEN "put" ELSE "notify",
                            req.identifier, req.value)

\* a variant that hands an empty result to the caller
next_result_allowsEmpty(W1, name) ==
  IF W1.ret.kind = "thrown"
  THEN [W1 EXCEPT !.ret = Ret("rejected", W1.ret.val)]
  ELSE IF W1.ret.kind = "undefined"
  THEN IF W1.prev.kind = "undefined"
       THEN [W1 EXCEPT !.ret = Ret("resolved", UNDEFINED)]
       ELSE [W1 EXCEPT !.ret = W1.prev]
  ELSE IF W1.ret.kind = "value"
  THEN [W1 EXCEPT !.ret = Ret("resolved", W1.ret.val),
                  !.prev = Ret("resolved", W1.ret.val)]
  ELSE [W1 EXCEPT !.prev = W1.ret]

\* a variant that does not remember the results of the layers
next_result_forgets(W1, name) ==
  IF W1.ret.kind = "thrown"
  THEN [W1 EXCEPT !.ret = Ret("rejected", W1.ret.val)]
  ELSE IF W1.ret.kind = "undefined"
  THEN [W1 EXCEPT !.ret = Ret("rejected",
          << "Layer", name, "must invoke next() or return a value." >>)]
  ELSE IF W1.ret.kind = "value"
  THEN [W1 EXCEPT !.ret = Ret("resolved", W1.ret.val)]
  ELSE W1

\* next(), after `result = layer(req, next)`: the result of the layer is in
\* W1.ret and previousResult in W1.prev
next_result(W1, name) ==
  IF W1.ret.kind = "thrown"
  THEN \* catch(e) { return when.reject(e); }
       [W1 EXCEPT !.ret = Ret("rejected", W1.ret.val)]
  ELSE IF W1.ret.kind = "undefined"
  THEN IF W1.prev.kind = "undefined"
       THEN [W1 EXCEPT !.ret = Ret("rejected",
               << "Layer", name, "must invoke next() or return a value." >>)]
       ELSE [W1 EXCEPT !.ret = W1.prev]
  ELSE IF W1.ret.kind = "value"
  THEN [W1 EXCEPT !.ret = Ret("resolved", W1.ret.val),
                  !.prev = Ret("resolved", W1.ret.val)]
  ELSE [W1 EXCEPT !.prev = W1.ret]

\* next(), when the layer at index idx (0: the final handler) has returned
next_returned(W1, idx, name) ==
  next_result(Log(W1, "return", idx, W1.ret.val, NoObject, W1.ret.kind), name)

\* a middleware function that called next(), after next() returned (W1.ret
\* is the promise next() gave it)
layer_called(W1, h) ==
  CASE h = "nothing" -> [W1 EXCEPT !.ret = Ret("undefined", UNDEFINED)]
    [] h = "after" -> [W1 EXCEPT !.ret = Ret("thrown", << "handler error" >>)]
    [] h = "recover" /\ W1.ret.kind = "rejected" ->
         [W1 EXCEPT !.ret = Ret("resolved", << "recovered" >>)]
    [] OTHER -> W1

\* what next() returned to the middleware function at index idx
layer_next(W1, idx, h) ==
  layer_called(Log(W1, "next", idx, W1.ret.val, NoObject, W1.ret.kind), h)

\* layer(req, next) for the middleware function h at index idx of the stack
layer(W, idx, h, req) ==
  CASE h \in {"forward", "nothing", "recover", "after"} ->
         layer_next(next(W, IF downstream(req) THEN idx + 1
                            ELSE idx - 1, req),
                    idx, h)
    [] h = "value" -> [W EXCEPT !.ret = Ret("value", << "h" >>)]
    [] h = "throw" -> [W EXCEPT !.ret = Ret("thrown", << "handler error" >>)]
    [] OTHER -> [W EXCEPT !.ret = Ret("undefined", UNDEFINED)]

\* next() of dispatch, with idx the index of the handler it invokes (1-based;
\* an index outside the stack gives the final handler)
next(W, idx, req) ==
  IF idx < 1 \/ idx > Len(W.stack)
  THEN next_returned(
         finalHandler(Log(W, "final", 0, req.deviceid, NoObject, req.method),
                      req),
         0, << "finalHandler" >>)
  ELSE next_returned(
         layer(Log(W, "layer", idx, req.deviceid, NoObject, req.method),
               idx, W.stack[idx], req),
         idx, << "layer" >>)

\* Organiq.prototype.dispatch, after next() returned
dispatch_returned(W1) ==
  [Log(W1, "result", 0, W1.ret.val, NoObject, W1.ret.kind)
   EXCEPT !.prev = Ret("undefined", UNDEFINED)]

\* a variant that starts every request at the first handler of the stack
dispatch_fromFirst(W, deviceid, method, identifier, value, answer, then) ==
  dispatch_returned(
    next([W EXCEPT !.prev = Ret("undefined", UNDEFINED)], 1,
         [deviceid |-> deviceid, method |-> method,
          identifier |-> identifier, value |-> value,
          answer |-> answer, then |-> then]))

\* Organiq.prototype.dispatch
dispatch(W, deviceid, method, identifier, value, answer, then) ==
  dispatch_returned(
    next([W EXCEPT !.prev = Ret("undefined", UNDEFINED)],
         IF method \in downstreamCommands THEN 1 ELSE Len(W.stack),
         [deviceid |-> deviceid, method |-> method,
          identifier |-> identifier, value |-> value,
          answer |-> answer, then |-> then]))

\* one listener of the emitting object o is called
listener_called(W, o, l, ev, args) ==
  CASE l.kind = "organiq" ->
         \* onPut / onNotify of register(): self.dispatch(req)
         dispatch(W, l.id, IF ev = "put" THEN "PUT" ELSE "NOTIFY",
                  args.identifier, args.value, "value", NoThen)
    [] l.kind = "websocket" ->
         \* the listener of connectLocalDevice
         sendRequest(W, l.s,
                     [Frame(IF ev = "put" THEN "PUT" ELSE "NOTIFY", l.id,
                            l.connid, args.value)
                      EXCEPT !.identifier = args.identifier], NoThen)
    [] l.act = "throw" ->
         Throw(Log(W, "listener", 0, << args.identifier, args.value >>, o, l.act))
    [] l.act = "disconnect" ->
         Forget(disconnect(Log(W, "listener", 0,
                               << args.identifier, args.value >>, o, l.act), o),
                o)
    [] OTHER -> Log(W, "listener", 0, << args.identifier, args.value >>, o, l.act)

\* EventEmitter.emit(ev, identifier, value) on object o: the listeners in the
\* order they were added, from index i of the snapshot ls; an exception of
\* a listener ends the emit
emitFrom(W, o, ls, i, ev, args) ==
  IF i > Len(ls) \/ W.threw THEN W
  ELSE emitFrom(IF ls[i].ev # ev THEN W
                ELSE listener_called(W, o, ls[i], ev, args),
                o, ls, i + 1, ev, args)

emit(W, o, ev, args) == emitFrom(W, o, listenersOf(W, o), 1, ev, args)

----------------------------------------------------------------------------
(* The link session: webSocketApiConnectionHandler and its closures.  `inp` *)
(* holds what the environment decides during the handler: inp.connid is the *)
(* value newId() returns, inp.answer what a native device does when called. *)

truthy(ret) == ret.kind \notin {"undefined", "null"}

\* handleRegister after organiq.register returned (its outcome is in W1)
handleRegister_registered(W1, s, req, proxy) ==
  IF truthy(W1.ret)
  THEN sendResponse([W1 EXCEPT !.connProxies[s] = OPut(@, req.deviceid, proxy)],
                    s, req, req.deviceid)
  ELSE sendFailureResponse(W1, s, req, << "Device registration failed" >>)

\* handleRegister with the proxy it constructed
handleRegister_proxy(W, s, req, inp, proxy) ==
  handleRegister_registered(register(W, req.deviceid, proxy, inp.connid),
                            s, req, proxy)

handleRegister(W, s, req, inp) ==
  IF OHas(W.connProxies[s], req.deviceid)
  THEN sendFailureResponse(W, s, req, << "Already registered" >>)
  ELSE handleRegister_proxy(W, s, req, inp,
         WebSocketDeviceProxy(W, s, req.deviceid, req.connid, FALSE))

\* handleDeregister after organiq.deregister returned (its outcome is in W1)
handleDeregister_deregistered(W1, s, req, proxy) ==
  IF W1.threw THEN W1
  ELSE sendResponse(W1, s, req, deviceidOf(proxy))

handleDeregister(W, s, req) ==
  IF OHas(W.connProxies[s], req.deviceid)
  THEN handleDeregister_deregistered(
         deregister([W EXCEPT !.connProxies[s] = ODel(@, req.deviceid)],
                    req.deviceid),
         s, req, OGet(W.connProxies[s], req.deviceid))
  ELSE sendFailureResponse(W, s, req, << "Unknown device" >>)

\* handleConnect after organiq.connect returned (its outcome is in W1): what
\* it returned is bound as the device, be it a proxy or a promise
handleConnect_connected(W1, s, req, inp) ==
  LET device == CASE W1.ret.kind = "object" -> W1.ret.obj
                  [] W1.ret.kind = "promise" -> PromiseObject(W1.ret.s, W1.ret.rid)
                  [] OTHER -> PromiseObject(0, NewSerial(W1))
  IN IF ~truthy(W1.ret)
     THEN sendFailureResponse(W1, s, req, << "Device connect failed." >>)
     ELSE sendResponse(connectLocalDevice(W1, s, req.deviceid, device, inp.connid),
                       s, req, inp.connid)

handleConnect(W, s, req, inp) ==
  handleConnect_connected(connect(W, req.deviceid), s, req, inp)

\* handleDisconnect after organiq.disconnect(device) returned (outcome in W3)
handleDisconnect_disconnected(W3, s, req) ==
  IF W3.threw THEN W3
  ELSE sendResponse(W3, s, req, JSTrue)

\* handleDisconnect after disconnectLocalDevice returned (outcome in W1)
handleDisconnect_unbound(W1, s, req) ==
  IF W1.threw THEN W1
  ELSE handleDisconnect_disconnected(
         disconnect(IF W1.ret.obj = NoObject
                    THEN sendFailureResponse(W1, s, req,
                                             << "Unknown device connection" >>)
                    ELSE W1,
                    W1.ret.obj),
         s, req)

handleDisconnect(W, s, req) ==
  handleDisconnect_unbound(disconnectLocalDevice(W, s, req.connid), s, req)

\* processMessage, downstream branch, after the device method returned
\* (outcome in W1): promise.then(sendResponse).catch(sendFailureResponse)
handleDownstream_called(W1, s, msg) ==
  CASE W1.ret.kind = "resolved" -> sendResponse(W1, s, msg, W1.ret.val)
    [] W1.ret.kind = "rejected" -> sendFailureResponse(W1, s, msg, W1.ret.val)
    [] OTHER -> W1

\* processMessage, the branch of a downstream command
handleDownstream(W, s, msg, inp) ==
  IF ~Has(W.connDevices[s], msg.connid)
  THEN sendFailureResponse(W, s, msg,
         << "Invalid downstream command: bad connection ID." >>)
  ELSE IF W.connDevices[s][msg.connid].kind # "LocalDeviceProxy"
  THEN \* the bound object is a promise: device.get is not a function
       Throw(W)
  ELSE \* LocalDeviceProxy.get & co: organiq.dispatch(req)
       handleDownstream_called(
         dispatch(W, W.connDevices[s][msg.connid].id, msg.method,
                  msg.identifier, msg.value,
                  inp.answer, ThenRespond(s, msg)),
         s, msg)

RECURSIVE upstreamFrom(_, _, _, _, _)
\* processMessage, the loop of the upstream branch, from index i of ps
upstreamFrom(W, ps, i, ev, args) ==
  IF i > Len(ps) THEN W
  ELSE upstreamFrom(
         caught(emit(Log(W, "proxy.emit", i, << args.identifier, args.value >>,
                         ps[i], ev),
                     ps[i], ev, args)),
         ps, i + 1, ev, args)

\* if (!Array.isArray(params)) { params = [params]; }
asArray(params) == IF isArray(params) THEN params
                   ELSE << "[" >> \o params \o << "]" >>

\* a variant that looks for the proxies in proxyConnections only
handleUpstream_connectionsOnly(W, s, msg) ==
  LET ps == IF Has(W.proxyConnections[s], msg.deviceid)
            THEN W.proxyConnections[s][msg.deviceid]
            ELSE << >>
      ev == IF msg.method = "PUT" THEN "put" ELSE "notify"
  IN sendResponse(
       upstreamFrom(W, ps, 1, ev,
                    Args(msg.identifier, IF msg.method = "NOTIFY"
                                         THEN asArray(msg.value) ELSE msg.value)),
       s, msg, JSTrue)

\* processMessage, the branch of an upstream command
handleUpstream(W, s, msg) ==
  LET ps == IF OHas(W.connProxies[s], msg.deviceid)
            THEN << OGet(W.connProxies[s], msg.deviceid) >>
            ELSE IF Has(W.proxyConnections[s], msg.deviceid)
            THEN W.proxyConnections[s][msg.deviceid]
            ELSE << >>
      ev == IF msg.method = "PUT" THEN "put" ELSE "notify"
  IN sendResponse(
       upstreamFrom(W, ps, 1, ev,
                    Args(msg.identifier, IF msg.method = "NOTIFY"
                                         THEN asArray(msg.value) ELSE msg.value)),
       s, msg, JSTrue)

\* a variant without the check for a binary message
processMessage_acceptsBinary(W, s, data, flags, inp) ==
  IF data.text # "json" \/ data.msg.reqid = 0 \/ data.msg.method = ""
  THEN Throw(W)
  ELSE LET msg == data.msg
           method == msg.method
       IN IF ~isValidRequestMethod(method) THEN Throw(W)
          ELSE IF method = "RESPONSE" THEN handleResponse(W, s, msg)
          ELSE IF method = "REGISTER" THEN handleRegister(W, s, msg, inp)
          ELSE IF method = "DEREGISTER" THEN handleDeregister(W, s, msg)
          ELSE IF method = "CONNECT" THEN handleConnect(W, s, msg, inp)
          ELSE IF method = "DISCONNECT" THEN handleDisconnect(W, s, msg)
          ELSE IF method \in downstreamCommands
          THEN handleDownstream(W, s, msg, inp)
          ELSE handleUpstream(W, s, msg)

\* data.text tells whether JSON.parse(data) succeeds, data.msg is its result
processMessage(W, s, data, flags, inp) ==
  IF flags.binary THEN Throw(W)
  ELSE IF data.text # "json" \/ data.msg.reqid = 0 \/ data.msg.method = ""
  THEN Throw(W)
  ELSE LET msg == data.msg
           method == msg.method
       IN IF ~isValidRequestMethod(method) THEN Throw(W)
          ELSE IF method = "RESPONSE" THEN handleResponse(W, s, msg)
          ELSE IF method = "REGISTER" THEN handleRegister(W, s, msg, inp)
          ELSE IF method = "DEREGISTER" THEN handleDeregister(W, s, msg)
          ELSE IF method = "CONNECT" THEN handleConnect(W, s, msg, inp)
          ELSE IF method = "DISCONNECT" THEN handleDisconnect(W, s, msg)
          ELSE IF method \in downstreamCommands
          THEN handleDownstream(W, s, msg, inp)
          ELSE handleUpstream(W, s, msg)

RECURSIVE processCloseFrom(_, _, _)
\* processClose: the loop over the keys of `proxies`, from index i
processCloseFrom(W, keys, i) ==
  IF i > Len(keys) \/ W.threw THEN W
  ELSE processCloseFrom(deregister(W, keys[i]), keys, i + 1)

\* processClose after the loop (outcome in W1)
processClose_deregistered(W1, s) ==
  IF W1.threw THEN W1
  ELSE IF W1.options[s].gateway
  THEN deregisterGateway([W1 EXCEPT !.connProxies[s] = << >>],
                         W1.options[s].domain)
  ELSE [W1 EXCEPT !.connProxies[s] = << >>]

processClose(W, s) ==
  processClose_deregistered(
    processCloseFrom(W, [i \in 1..Len(W.connProxies[s]) |-> W.connProxies[s][i].k], 1),
    s)

\* WebSocketApi(organiq, options) and the connection handler it returns
webSocketApiConnectionHandler(W, s, opts, connids) ==
  LET W1 == [W EXCEPT !.ws[s] = "open",
                      !.options[s] = [gateway |-> opts.gateway,
                                      domain |-> IF opts.domain = << >>
                                                 THEN Wildcard ELSE opts.domain]]
  IN IF W1.options[s].gateway
     THEN registerGateway(W1, W1.options[s].domain, s, connids)
     ELSE W1

----------------------------------------------------------------------------
(* Inputs of the environment *)

CoreId == << ":", "c", "o", "r", "e" >>
RawIds == { << "a" >>, << "A" >>, << "e", ":", "b" >>, CoreId }
ConnIds == { << "1" >>, << "2" >> }
PeerConnId == << "7" >>
GatewayDomains == { << >>, << "." >> }
TableDomains == { Wildcard, << "." >> }
DownstreamInputs == {"GET", "SET"}
Answers == {"value", "undefined", "throw"}
ResValues == { << "1" >>, << "2" >> }

EmptySession(v) == [s \in Sessions |-> v]

NoPrior == [id |-> << >>, device |-> NoObject, devices |-> << >>,
            proxies |-> << >>, listeners |-> << >>]
\* what `prior` remembers: a successful register(id, device) records the
\* registries it started from; the record is kept while gateways come and go
\* and until the next deregister() has been looked at
PriorAfter(W1, op, id, device) ==
  IF op = "register" /\ ~W1.threw /\ W1.ret.kind \in {"resolved", "promise"}
  THEN [id |-> getDeviceAuthority(World, id).deviceid, device |-> device,
        devices |-> devices,
        proxies |-> (LET deviceid == getDeviceAuthority(World, id).deviceid
                     IN IF Has(proxies, deviceid) THEN proxies[deviceid]
                        ELSE << >>),
        listeners |-> listenersOf(World, device)]
  ELSE IF op \in {"open", "close", "deregisterGateway", "deregister"}
          /\ last.op # "deregister"
  THEN prior
  ELSE NoPrior

\* no second node: session 1 faces a peer that is not modelled
NoMaster == [linked |-> FALSE, node |-> 0, toMaster |-> << >>,
             toContainer |-> << >>, emitted |-> << >>, observed |-> << >>]

Init ==
  /\ defaultDomain = << "." >>
  /\ devices = << [k |-> CoreId, v |-> CoreDevice] >>
  /\ proxies = EmptyMap
  /\ gateways = EmptyMap
  /\ listeners = EmptyMap
  /\ ws = EmptySession("none")
  /\ options = EmptySession([gateway |-> FALSE, domain |-> Wildcard])
  /\ connDevices = EmptySession(EmptyMap)
  /\ connProxies = EmptySession(<< >>)
  /\ proxyConnections = EmptySession(EmptyMap)
  /\ requests = EmptySession({})
  /\ reqid = EmptySession(0)
  /\ deferreds = EmptySession(EmptyMap)
  /\ peerReqid = EmptySession(0)
  /\ responses = EmptySession(EmptyMap)
  /\ answers = EmptySession(EmptyMap)
  /\ handles = {}
  /\ stack = << >>
  /\ trace = << >>
  /\ prior = NoPrior
  /\ sent = << >>
  /\ last = [op |-> "init", s |-> 0, id |-> << >>, connid |-> << >>, rid |-> 0,
             ret |-> "undefined", threw |-> FALSE]
  /\ master = NoMaster

\* the frames of a handler that went out on session s
FramesOn(frames, s) ==
  LET sel == SelectSeq(frames, LAMBDA x : x.s = s)
  IN [i \in 1..Len(sel) |-> sel[i].frame]

\* the calls of the application's listeners on Remote Device Proxies
ObservedIn(tr) ==
  LET sel == SelectSeq(tr, LAMBDA x : x.e = "listener"
                                     /\ x.obj.kind = "WebSocketDeviceProxy")
  IN [i \in 1..Len(sel) |-> [obj |-> sel[i].obj, args |-> sel[i].id]]

\* what a handler of this node leaves on the link m: its frames travel to
\* the other node, and what the application saw is remembered
Wire(m, W1) ==
  IF m.linked
  THEN [m EXCEPT !.toMaster = @ \o FramesOn(W1.sent, 1),
                 !.observed = @ \o ObservedIn(W1.trace)]
  ELSE m

\* the cap of _reqid
ReqBound == IF master.linked THEN MaxLinkReq ELSE MaxReq

\* the handler ran from state World to W1: W1 becomes the state, and m is the
\* link before the frames of the handler went out
CommitWith(W1, m, op, s, id, connid, rid, device) ==
  /\ prior' = PriorAfter(W1, op, id, device)
  /\ \A t \in Sessions : W1.reqid[t] <= ReqBound
  /\ \A k \in DOMAIN W1.proxies : Len(W1.proxies[k]) <= MaxProxies
  /\ defaultDomain' = W1.defaultDomain
  /\ devices' = W1.devices
  /\ proxies' = W1.proxies
  /\ gateways' = W1.gateways
  /\ listeners' = W1.listeners
  /\ ws' = W1.ws
  /\ options' = W1.options
  /\ connDevices' = W1.connDevices
  /\ connProxies' = W1.connProxies
  /\ proxyConnections' = W1.proxyConnections
  /\ requests' = W1.requests
  /\ reqid' = W1.reqid
  /\ deferreds' = W1.deferreds
  /\ peerReqid' = W1.peerReqid
  /\ responses' = W1.responses
  /\ answers' = W1.answers
  /\ handles' = W1.handles
  /\ stack' = W1.stack
  /\ trace' = W1.trace
  /\ sent' = W1.sent
  /\ last' = [op |-> op, s |-> s, id |-> id, connid |-> connid, rid |-> rid,
              ret |-> W1.ret.kind, threw |-> W1.threw]
  /\ master' = Wire(m, W1)

Commit(W1, op, s, id, connid, rid, device) ==
  CommitWith(W1, master, op, s, id, connid, rid, device)

(* The application and the devices *)

ApiRegister(id, device, connid) ==
  Commit(register(World, id, device, connid), "register", 0, id, connid, 0,
         device)

ApiDeregister(id) ==
  Commit(deregister(World, id), "deregister", 0, id, << >>, 0, NoObject)

\* what the application keeps of connect's result (in W1): the proxy, or a
\* continuation on the promise that will give it the proxy
ApiConnect_result(W1) ==
  CASE W1.ret.kind = "object" ->
         [W1 EXCEPT !.handles = @ \cup {W1.ret.obj}]
    [] W1.ret.kind = "promise" ->
         [W1 EXCEPT !.deferreds[W1.ret.s][W1.ret.rid].then.s = Application]
    [] OTHER -> W1

ApiConnect(id) ==
  Commit(ApiConnect_result(connect(World, id)), "connect", 0, id, << >>, 0,
         NoObject)

ApiDisconnect(proxy) ==
  /\ proxy \in handles
  /\ Commit(Forget(disconnect(World, proxy), proxy),
            "disconnect", 0, deviceidOf(proxy), << >>, 0, NoObject)

\* proxy.on(ev, callback) by the application
ProxyOn(proxy, ev, act) ==
  /\ proxy \in handles
  /\ Len(listenersOf(World, proxy)) < MaxSubs
  /\ Commit(on(World, proxy, AppListener(ev, act)), "on", 0, deviceidOf(proxy),
            << >>, 0, proxy)

\* proxy.get(...) and the like by the application, on a proxy it holds
\* the identifier and the value (the params of INVOKE) the application passes
ApiIdentifier == << "p" >>
ApiValue == << "x" >>

ApiCall_proxy(W, proxy, method, answer) ==
  IF proxy.kind = "LocalDeviceProxy"
  THEN \* LocalDeviceProxy: organiq.dispatch(req)
       dispatch(W, proxy.id, method, ApiIdentifier, ApiValue, answer, NoThen)
  ELSE \* WebSocketDeviceProxy.sendRequest
       sendRequest(W, proxy.s,
                   WebSocketDeviceProxy_req(proxy, method, ApiIdentifier,
                                            ApiValue),
                   NoThen)

ApiCall(proxy, method, answer) ==
  /\ proxy \in handles
  /\ Commit(ApiCall_proxy(World, proxy, method, answer), method, 0,
            deviceidOf(proxy), << >>, 0, proxy)

\* organiq.use(fn) by the application
Use(h) ==
  /\ Len(stack) < MaxStack
  /\ Commit(use(World, << h >>), "use", 0, << h >>, << >>, 0, NoObject)

\* organiq.getDeviceAuthority(deviceid), and the same call on the deviceid of
\* the authority it returned
ApiGetDeviceAuthority_twice(W, authority) ==
  Log(Log(W, "authority", 1, W.ret.val, NoObject, authority),
      "authority", 2, authority.deviceid, NoObject,
      getDeviceAuthority(W, authority.deviceid))

ApiGetDeviceAuthority(deviceid) ==
  Commit(ApiGetDeviceAuthority_twice(
           [World EXCEPT !.ret = Ret("value", deviceid)],
           getDeviceAuthority(World, deviceid)),
         "getDeviceAuthority", 0, deviceid, << >>, 0, NoObject)

ApiDeregisterGateway(domain) ==
  Commit(deregisterGateway(World, domain), "deregisterGateway", 0, domain, << >>, 0,
         NoObject)

\* device.emit(ev, identifier, value)
DeviceEmits(device, ev, identifier, value) ==
  /\ Has(listeners, device)
  /\ Commit(emit(World, device, ev, Args(identifier, value)), "emit", 0, << ev >>,
            << >>, 0, NoObject)

DeviceEmit(device, ev) == DeviceEmits(device, ev, << "m" >>, << "23" >>)

(* The sockets and the remote peers *)

Open(s, opts, connids) ==
  /\ ws[s] = "none"
  /\ \A t \in Sessions : t < s => ws[t] # "none"
  /\ Commit(webSocketApiConnectionHandler(World, s, opts, connids),
            "open", s, opts.domain, << >>, 0, NoObject)

Close(s) ==
  /\ ws[s] = "open"
  /\ Commit(processClose([World EXCEPT !.ws[s] = "closed"], s),
            "close", s, << >>, << >>, 0, NoObject)

\* the peer sends a request frame; it numbers its requests 1, 2, ...
RecvRequest(s, method, deviceid, connid, value, inp) ==
  /\ ws[s] = "open"
  /\ peerReqid[s] < MaxPeerReq
  /\ LET rid == peerReqid[s] + 1
         msg == [Frame(method, deviceid, connid, value) EXCEPT
                   !.reqid = rid, !.identifier = inp.identifier]
         W0 == [World EXCEPT !.peerReqid[s] = rid]
     IN Commit(processMessage(W0, s, [text |-> "json", msg |-> msg],
                              [binary |-> FALSE], inp),
               method, s, deviceid, connid, rid, NoObject)

NoInput == [connid |-> << >>, answer |-> "value", identifier |-> UNDEFINED]

RecvRegister(s, deviceid, connid) ==
  RecvRequest(s, "REGISTER", deviceid, PeerConnId, UNDEFINED,
              [connid |-> connid, answer |-> "value", identifier |-> UNDEFINED])
RecvDeregister(s, deviceid) ==
  RecvRequest(s, "DEREGISTER", deviceid, UNDEFINED, UNDEFINED, NoInput)
RecvConnect(s, deviceid, connid) ==
  RecvRequest(s, "CONNECT", deviceid, UNDEFINED, UNDEFINED,
              [connid |-> connid, answer |-> "value", identifier |-> UNDEFINED])
RecvDisconnect(s, connid) ==
  RecvRequest(s, "DISCONNECT", UNDEFINED, connid, UNDEFINED, NoInput)
RecvDownstream(s, method, connid, answer) ==
  RecvRequest(s, method, UNDEFINED, connid, << "x" >>,
              [connid |-> << >>, answer |-> answer, identifier |-> << "p" >>])
RecvUpstreamValue(s, method, deviceid, value) ==
  RecvRequest(s, method, deviceid, UNDEFINED, value,
              [NoInput EXCEPT !.identifier = << "m" >>])
RecvUpstream(s, method, deviceid) ==
  RecvUpstreamValue(s, method, deviceid, << "23" >>)

\* the peer sends a RESPONSE frame for reqid rid
\* the frames processMessage refuses: a binary message, a text that is not
\* JSON, JSON without reqid or without method, and methods that are not in
\* the lists.  Each one would be a REGISTER of a new device if it were valid.
InvalidFrame(kind) ==
  LET msg == [Frame("REGISTER", << "b" >>, PeerConnId, UNDEFINED) EXCEPT !.reqid = 1]
  IN CASE kind = "binary" ->
            [data |-> [text |-> "json", msg |-> msg], flags |-> [binary |-> TRUE]]
       [] kind = "non-JSON" ->
            [data |-> [text |-> "garbage", msg |-> msg],
             flags |-> [binary |-> FALSE]]
       [] kind = "no reqid" ->
            [data |-> [text |-> "json", msg |-> [msg EXCEPT !.reqid = 0]],
             flags |-> [binary |-> FALSE]]
       [] kind = "no method" ->
            [data |-> [text |-> "json", msg |-> [msg EXCEPT !.method = ""]],
             flags |-> [binary |-> FALSE]]
       [] OTHER ->
            [data |-> [text |-> "json", msg |-> [msg EXCEPT !.method = kind]],
             flags |-> [binary |-> FALSE]]
InvalidKinds == {"binary", "non-JSON", "no reqid", "no method", "register",
                 "REGISTER0", "INVALID"}

\* the peer sends a frame that is not a valid request
RecvInvalid(s, kind) ==
  /\ ws[s] = "open"
  /\ Commit(processMessage(World, s, InvalidFrame(kind).data,
                           InvalidFrame(kind).flags,
                           [connid |-> << "2" >>, answer |-> "value",
                            identifier |-> UNDEFINED]),
            "invalid", s, << kind >>, << >>, 0, NoObject)

RecvResponse(s, rid, success, res) ==
  /\ ws[s] = "open"
  /\ LET msg == ResponseFrame(rid, UNDEFINED, success,
                              IF success THEN res ELSE UNDEFINED,
                              IF success THEN UNDEFINED ELSE res)
         W0 == IF rid \in requests[s]
               THEN [World EXCEPT !.answers[s] = Put(@, rid,
                       [success |-> success, res |-> res])]
               ELSE World
     IN Commit(processMessage(W0, s, [text |-> "json", msg |-> msg],
                              [binary |-> FALSE], NoInput),
               "RESPONSE", s, << >>, << >>, rid, NoObject)

(* Outgoing requests of one gateway-mode session: the application        *)
(* registers devices and connects (REGISTER and CONNECT requests), devices  *)
(* emit (PUT and NOTIFY requests); the peer answers in any order, answers   *)
(* twice or answers what was never asked; the socket closes.               *)
LinkIds == { << "a" >>, << "e", ":", "b" >> }

Next ==
  \/ \E cs \in [1..Len(devices) -> ConnIds] :
       Open(1, [gateway |-> TRUE, domain |-> << >>], cs)
  \/ Close(1)
  \/ \E id \in LinkIds, c \in ConnIds :
       gateways # EmptyMap /\ ApiRegister(id, EmitterDevice, c)
  \/ \E id \in LinkIds : gateways # EmptyMap /\ ApiConnect(id)
  \/ \E ev \in {"put", "notify"} : DeviceEmit(EmitterDevice, ev)
  \/ \E rid \in 1..MaxReq, ok \in BOOLEAN, res \in ResValues :
       RecvResponse(1, rid, ok, res)

Spec == Init /\ [][Next]_vars

(* One session facing its peer: the peer sends request frames of every     *)
(* kind and answers the requests it gets; the socket closes.               *)
PeerNext ==
  \/ \E gw \in BOOLEAN, cs \in [1..Len(devices) -> ConnIds] :
       Open(1, [gateway |-> gw, domain |-> << >>], cs)
  \/ Close(1)
  \/ \E id \in LinkIds, c \in ConnIds : RecvRegister(1, id, c)
  \/ \E id \in LinkIds : RecvDeregister(1, id)
  \/ \E id \in LinkIds, c \in ConnIds : RecvConnect(1, id, c)
  \/ \E c \in ConnIds : RecvDisconnect(1, c)
  \/ \E m \in DownstreamInputs, c \in ConnIds, a \in Answers :
       RecvDownstream(1, m, c, a)
  \/ \E m \in upstreamCommands, id \in LinkIds : RecvUpstream(1, m, id)
  \/ \E rid \in 1..MaxReq, ok \in BOOLEAN, res \in ResValues :
       RecvResponse(1, rid, ok, res)

SpecPeer == Init /\ [][PeerNext]_vars

(* The node's API with gateway sessions coming and going: no peer frames.  *)
NodeIds == { << "a" >>, << "A" >>, CoreId }

NodeNext ==
  \/ \E id \in NodeIds, d \in NativeDevices, c \in ConnIds : ApiRegister(id, d, c)
  \/ \E id \in NodeIds : ApiDeregister(id)
  \/ ApiConnect(<< "A" >>)
  \/ \E p \in handles : ApiDisconnect(p)
  \/ ApiDeregisterGateway(Wildcard)
  \/ \E cs \in [1..Len(devices) -> ConnIds] :
       Open(1, [gateway |-> TRUE, domain |-> << >>], cs)
  \/ Close(1)

SpecNode == Init /\ [][NodeNext]_vars

(* Gateway slots: sessions opened in gateway mode for two domains, closed  *)
(* in any order, with the application deregistering gateways itself.       *)
GatewaysNext ==
  \/ \E s \in Sessions, dom \in GatewayDomains,
        cs \in [1..Len(devices) -> ConnIds] :
       Open(s, [gateway |-> TRUE, domain |-> dom], cs)
  \/ \E s \in Sessions : Close(s)
  \/ \E dom \in TableDomains : ApiDeregisterGateway(dom)
  \/ \E c \in ConnIds : ApiRegister(<< "a" >>, EmitterDevice, c)
  \/ ApiDeregister(<< "a" >>)

SpecGateways == Init /\ [][GatewaysNext]_vars

(* Upstream fan-out on a node without gateways: the application connects   *)
(* to a native device, subscribes to its proxies and releases them; the     *)
(* device emits.  A subscriber returns, throws, or releases its own proxy.  *)
ListenerActs == {"return", "throw", "disconnect"}
FanOutId == << ".", ":", "a" >>

FanOutNext ==
  \/ ApiRegister(<< "a" >>, EmitterDevice, << "1" >>)
  \/ ApiDeregister(<< "a" >>)
  \/ ApiConnect(<< "a" >>)
  \/ \E p \in handles : ApiDisconnect(p)
  \/ \E p \in handles, ev \in {"put", "notify"}, act \in ListenerActs :
       ProxyOn(p, ev, act)
  \/ \E ev \in {"put", "notify"} : DeviceEmit(EmitterDevice, ev)
  \/ \E h \in {"forward", "value"} : Use(h)

SpecFanOut == Init /\ [][FanOutNext]_vars

(* The middleware pipeline: the application installs handlers, registers   *)
(* a native device and connects to it, calls the device through its        *)
(* proxies; the device emits; a gateway session comes and goes.            *)
\* the methods the application calls on its proxies
ApiMethods == {"GET", "SET", "INVOKE"}

\* what the device of the application does when it is called: it returns a
\* value, nothing or false, or it throws
ApiAnswers == Answers \cup {"false"}

DispatchNext ==
  \/ \E h \in Handlers : Use(h)
  \/ ApiRegister(<< "a" >>, EmitterDevice, << "1" >>)
  \/ ApiConnect(<< "a" >>)
  \/ \E p \in handles, m \in ApiMethods, a \in ApiAnswers : ApiCall(p, m, a)
  \/ \E ev \in {"put", "notify"} : DeviceEmit(EmitterDevice, ev)
  \/ \E cs \in [1..Len(devices) -> {<< "1" >>}] :
       Open(1, [gateway |-> TRUE, domain |-> << >>], cs)
  \/ Close(1)

SpecDispatch == Init /\ [][DispatchNext]_vars

(* Registration over one session on a node that also registers a device   *)
(* itself: the peer registers and deregisters ids that differ in case only. *)
RegistrarIds == { << "a" >>, << "A" >> }

RegistrarNext ==
  \/ \E gw \in BOOLEAN, cs \in [1..Len(devices) -> {<< "1" >>}] :
       Open(1, [gateway |-> gw, domain |-> << >>], cs)
  \/ Close(1)
  \/ ApiRegister(<< "a" >>, EmitterDevice, << "1" >>)
  \/ ApiDeregister(<< "a" >>)
  \/ \E id \in RegistrarIds : RecvRegister(1, id, << "2" >>)
  \/ \E id \in RegistrarIds : RecvDeregister(1, id)

SpecRegistrar == Init /\ [][RegistrarNext]_vars

(* Authority resolution on nodes constructed with and without a default   *)
(* domain, while gateway sessions for several domains open and close.      *)
DefaultDomainOptions == { UNDEFINED, << >>, << "e" >>, << "E" >> }
AuthorityDomains == { << >>, << "e" >>, << "E" >> }
AuthorityIds == { << >>, << "a" >>, << "A" >>, << ":", "a" >>, << ":", "A" >>,
                  << "e", ":", "a" >>, << "E", ":", "A" >>, << "b", ":", "a" >>,
                  << "e", ":", "b", ":", "a" >>, << "*", ":", "a" >> }

\* this.defaultDomain = options.defaultDomain || '.'
Organiq_defaultDomain(option) ==
  IF option = UNDEFINED \/ option = << >> THEN << "." >> ELSE option

AuthorityInit ==
  /\ defaultDomain \in {Organiq_defaultDomain(o) : o \in DefaultDomainOptions}
  /\ devices = << [k |-> CoreId, v |-> CoreDevice] >>
  /\ proxies = EmptyMap
  /\ gateways = EmptyMap
  /\ listeners = EmptyMap
  /\ ws = EmptySession("none")
  /\ options = EmptySession([gateway |-> FALSE, domain |-> Wildcard])
  /\ connDevices = EmptySession(EmptyMap)
  /\ connProxies = EmptySession(<< >>)
  /\ proxyConnections = EmptySession(EmptyMap)
  /\ requests = EmptySession({})
  /\ reqid = EmptySession(0)
  /\ deferreds = EmptySession(EmptyMap)
  /\ peerReqid = EmptySession(0)
  /\ responses = EmptySession(EmptyMap)
  /\ answers = EmptySession(EmptyMap)
  /\ handles = {}
  /\ stack = << >>
  /\ trace = << >>
  /\ prior = NoPrior
  /\ sent = << >>
  /\ last = [op |-> "init", s |-> 0, id |-> << >>, connid |-> << >>, rid |-> 0,
             ret |-> "undefined", threw |-> FALSE]
  /\ master = NoMaster

AuthorityNext ==
  \/ \E s \in Sessions, dom \in AuthorityDomains,
        cs \in [1..Len(devices) -> ConnIds] :
       Open(s, [gateway |-> TRUE, domain |-> dom], cs)
  \/ \E s \in Sessions : Close(s)
  \/ \E dom \in AuthorityDomains \cup {Wildcard} : ApiDeregisterGateway(dom)
  \/ \E id \in AuthorityIds : ApiGetDeviceAuthority(id)
  \/ ApiRegister(<< "a" >>, EmitterDevice, << "1" >>)

SpecAuthority == AuthorityInit /\ [][AuthorityNext]_vars

(* One session whose peer sends frames that are not valid requests between *)
(* its registrations and connections.                                       *)
FramesNext ==
  \/ \E cs \in [1..Len(devices) -> ConnIds] :
       Open(1, [gateway |-> FALSE, domain |-> << >>], cs)
  \/ Close(1)
  \/ ApiRegister(<< "a" >>, EmitterDevice, << "1" >>)
  \/ \E id \in LinkIds : RecvRegister(1, id, << "1" >>)
  \/ \E id \in LinkIds : RecvDeregister(1, id)
  \/ \E id \in LinkIds : RecvConnect(1, id, << "1" >>)
  \/ \E kind \in InvalidKinds : RecvInvalid(1, kind)

SpecFrames == Init /\ [][FramesNext]_vars

(* Two nodes: this node (the container) opens session 1 in gateway mode to *)
(* a second node (the master), which serves the session.  The frames each   *)
(* node sends are delivered to the other one in order.  The application of  *)
(* the container registers a device, connects to it, subscribes to the      *)
(* proxy it gets, and the device emits.                                     *)

\* a node as its constructor leaves it
NewNode ==
  [defaultDomain |-> << "." >>,
   devices |-> << [k |-> CoreId, v |-> CoreDevice] >>,
   proxies |-> EmptyMap, gateways |-> EmptyMap, listeners |-> EmptyMap,
   ws |-> EmptySession("none"),
   options |-> EmptySession([gateway |-> FALSE, domain |-> Wildcard]),
   connDevices |-> EmptySession(EmptyMap),
   connProxies |-> EmptySession(<< >>),
   proxyConnections |-> EmptySession(EmptyMap),
   requests |-> EmptySession({}), reqid |-> EmptySession(0),
   deferreds |-> EmptySession(EmptyMap), peerReqid |-> EmptySession(0),
   responses |-> EmptySession(EmptyMap), answers |-> EmptySession(EmptyMap),
   handles |-> {}, stack |-> << >>,
   trace |-> << >>, sent |-> << >>, threw |-> FALSE,
   prev |-> Ret("undefined", UNDEFINED), ret |-> Ret("undefined", UNDEFINED)]

\* the state a handler leaves, without the outcome of the handler itself
Quiet(W) ==
  [W EXCEPT !.trace = << >>, !.sent = << >>, !.threw = FALSE,
            !.prev = Ret("undefined", UNDEFINED),
            !.ret = Ret("undefined", UNDEFINED)]

\* the node has received frame msg on session s
Delivered(W, s, msg) ==
  IF msg.method = "RESPONSE"
  THEN IF msg.reqid \in W.requests[s]
       THEN [W EXCEPT !.answers[s] = Put(@, msg.reqid,
               [success |-> msg.success,
                res |-> IF msg.success THEN msg.res ELSE msg.err])]
       ELSE W
  ELSE [W EXCEPT !.peerReqid[s] = msg.reqid]

\* the connection ids newId() of the master may give
MasterConnIds == { << "5" >>, << "6" >> }
EmitValues == { << "23" >>, << "[", "23", "]" >> }

LinkInit ==
  /\ defaultDomain = << "." >>
  /\ devices = << [k |-> CoreId, v |-> CoreDevice] >>
  /\ proxies = EmptyMap
  /\ gateways = EmptyMap
  /\ listeners = EmptyMap
  /\ ws = EmptySession("none")
  /\ options = EmptySession([gateway |-> FALSE, domain |-> Wildcard])
  /\ connDevices = EmptySession(EmptyMap)
  /\ connProxies = EmptySession(<< >>)
  /\ proxyConnections = EmptySession(EmptyMap)
  /\ requests = EmptySession({})
  /\ reqid = EmptySession(0)
  /\ deferreds = EmptySession(EmptyMap)
  /\ peerReqid = EmptySession(0)
  /\ responses = EmptySession(EmptyMap)
  /\ answers = EmptySession(EmptyMap)
  /\ handles = {}
  /\ stack = << >>
  /\ trace = << >>
  /\ prior = NoPrior
  /\ sent = << >>
  /\ last = [op |-> "init", s |-> 0, id |-> << >>, connid |-> << >>, rid |-> 0,
             ret |-> "undefined", threw |-> FALSE]
  /\ master = [NoMaster EXCEPT !.linked = TRUE, !.node = NewNode]

\* the socket between the two nodes opens: the connection handler runs on
\* both of them, in gateway mode on the container
LinkOpen ==
  /\ ws[1] = "none" /\ master.node.ws[1] = "none"
  /\ \E cs \in [1..Len(devices) -> {<< "1" >>}] :
       CommitWith(webSocketApiConnectionHandler(
                    World, 1, [gateway |-> TRUE, domain |-> << >>], cs),
                  [master EXCEPT !.node = Quiet(webSocketApiConnectionHandler(
                     @, 1, [gateway |-> FALSE, domain |-> << >>], << >>))],
                  "open", 1, << >>, << >>, 0, NoObject)

\* the master after its 'message' listener ran (its outcome is in M1)
MasterRecv_processed(M1, msg) ==
  /\ M1.reqid[1] <= MaxLinkReq
  /\ CommitWith(World,
                [master EXCEPT !.node = Quiet(M1), !.toMaster = Tail(@),
                               !.toContainer = @ \o FramesOn(M1.sent, 1)],
                "master", 1, << msg.method >>, << >>, msg.reqid, NoObject)

\* the first frame on its way to the master arrives there
MasterRecv ==
  /\ master.toMaster # << >>
  /\ \E c \in MasterConnIds :
       MasterRecv_processed(
         processMessage(Delivered(master.node, 1, Head(master.toMaster)), 1,
                        [text |-> "json", msg |-> Head(master.toMaster)],
                        [binary |-> FALSE],
                        [connid |-> c, answer |-> "value",
                         identifier |-> UNDEFINED]),
         Head(master.toMaster))

\* the first frame on its way to the container arrives there
ContainerRecv ==
  /\ master.toContainer # << >>
  /\ LET msg == Head(master.toContainer)
     IN CommitWith(processMessage(Delivered(World, 1, msg), 1,
                                  [text |-> "json", msg |-> msg],
                                  [binary |-> FALSE], NoInput),
                   [master EXCEPT !.toContainer = Tail(@)],
                   msg.method, 1, msg.deviceid, msg.connid, msg.reqid, NoObject)

\* no frame is on its way
LinkQuiet == master.toMaster = << >> /\ master.toContainer = << >>

\* how many listeners for ev the application has put on proxy p
SubscribersOn(p, ev) ==
  Cardinality({i \in 1..Len(listenersOf(World, p)) :
                 listenersOf(World, p)[i].ev = ev})

\* the Remote Device Proxies the application holds and listens to for ev
Subscribed(ev) ==
  {p \in handles :
     /\ p.kind = "WebSocketDeviceProxy"
     /\ \E i \in 1..Len(listenersOf(World, p)) :
          listenersOf(World, p)[i].ev = ev}

\* the application subscribes to a Remote Device Proxy while the link is quiet
LinkProxyOn(proxy, ev) ==
  /\ LinkQuiet
  /\ proxy.kind = "WebSocketDeviceProxy"
  /\ ProxyOn(proxy, ev, "return")

\* the device emits; the listeners that are on the proxies now are to see the
\* event
LinkEmit(ev, value) ==
  /\ Has(listeners, EmitterDevice)
  /\ Len(master.emitted) < MaxEmits
  /\ CommitWith(emit(World, EmitterDevice, ev, Args(<< "m" >>, value)),
                [master EXCEPT !.emitted =
                   Append(@, [ev |-> ev, args |-> << << "m" >>, value >>,
                              objs |-> Subscribed(ev),
                              subs |-> [p \in Subscribed(ev) |->
                                          SubscribersOn(p, ev)]])],
                "emit", 0, << ev >>, << >>, 0, NoObject)

LinkNext ==
  \/ LinkOpen
  \/ ApiRegister(<< "a" >>, EmitterDevice, << "1" >>)
  \/ ApiConnect(<< "a" >>)
  \/ \E p \in handles, ev \in {"put", "notify"} : LinkProxyOn(p, ev)
  \/ \E ev \in {"put", "notify"}, v \in EmitValues : LinkEmit(ev, v)
  \/ MasterRecv
  \/ ContainerRecv

SpecLink == LinkInit /\ [][LinkNext]_vars

(* Two sessions of one master: the peers register and deregister the same   *)
(* ids, in either spelling, and the sockets close.                          *)
TwoSessionsNext ==
  \/ \E s \in Sessions : Open(s, [gateway |-> FALSE, domain |-> << >>], << >>)
  \/ \E s \in Sessions : Close(s)
  \/ \E s \in Sessions, id \in RegistrarIds : RecvRegister(s, id, << "2" >>)
  \/ \E s \in Sessions, id \in RegistrarIds : RecvDeregister(s, id)

SpecTwoSessions == Init /\ [][TwoSessionsNext]_vars

(* PUT and NOTIFY frames of the peer on one session: the peer registers a  *)
(* device, the application connects through the session when it is the      *)
(* gateway and subscribes to its proxies with callbacks that return or       *)
(* throw.                                                                    *)
UpstreamIds == { << "a" >>, << ".", ":", "a" >>, << "b" >> }

\* the PUT or NOTIFY frame for id with value v
UpstreamFrame(method, id, v) ==
  [Frame(method, id, UNDEFINED, v) EXCEPT !.reqid = 1, !.identifier = << "m" >>]

UpstreamNext ==
  \/ \E gw \in BOOLEAN, cs \in [1..Len(devices) -> {<< "1" >>}] :
       Open(1, [gateway |-> gw, domain |-> << >>], cs)
  \/ \E id \in UpstreamIds \ {<< "b" >>} : RecvRegister(1, id, << "2" >>)
  \/ ApiConnect(<< "a" >>)
  \/ \E rid \in 1..MaxReq : RecvResponse(1, rid, TRUE, << "1" >>)
  \/ \E p \in handles, ev \in {"put", "notify"}, act \in {"return", "throw"} :
       ProxyOn(p, ev, act)
  \/ \E m \in upstreamCommands, id \in UpstreamIds, v \in EmitValues :
       RecvUpstreamValue(1, m, id, v)

SpecUpstream == Init /\ [][UpstreamNext]_vars

----------------------------------------------------------------------------
(* Properties *)

\* C1: when a session closes with N requests pending, every one of the N
\* promises is rejected and the table of pending requests is empty afterwards.
C1_CloseFailsPending ==
  \A s \in Sessions :
    ws[s] = "closed" =>
      /\ requests[s] = {}
      /\ \A rid \in DOMAIN deferreds[s] : deferreds[s][rid].state # "pending"

\* C2: every request frame of the peer gets exactly one RESPONSE carrying its
\* reqid: never two, and none only while the answer is still awaited from a
\* relayed request.
C2_ExactlyOneResponse ==
  \A s \in Sessions : \A r \in 1..peerReqid[s] :
    LET n == IF Has(responses[s], r) THEN responses[s][r] ELSE 0
    IN /\ n <= 1
       /\ n = 0 =>
            \E t \in Sessions : \E q \in requests[t] :
              /\ deferreds[t][q].then.k = "respond"
              /\ deferreds[t][q].then.s = s
              /\ deferreds[t][q].then.rid = r

\* C3: the table of pending requests holds exactly the requests sent and not
\* yet answered; a RESPONSE removes the entry of its reqid and completes that
\* promise with what the RESPONSE carries, so the table is empty once every
\* request sent has been answered.
C3_PendingTable ==
  \A s \in Sessions :
    /\ requests[s] =
         {rid \in DOMAIN deferreds[s] : deferreds[s][rid].state = "pending"}
    /\ \A rid \in DOMAIN answers[s] :
         /\ rid \notin requests[s]
         /\ deferreds[s][rid].state =
              (IF answers[s][rid].success THEN "resolved" ELSE "rejected")
         /\ deferreds[s][rid].value = answers[s][rid].res
    /\ (\A rid \in 1..reqid[s] : Has(answers[s], rid)) => requests[s] = {}

C3_Witness ==
  /\ reqid[1] = 2
  /\ DOMAIN answers[1] = {1, 2}
  /\ requests[1] = {}
  /\ deferreds[1][1].state = "rejected"
  /\ deferreds[1][2].state = "resolved"

\* C4: a request sent on a session carries a reqid greater than every reqid
\* the session assigned before, and a RESPONSE completes the promise of its
\* own reqid and no other, in whatever order the responses arrive.
C4_ReqidOrder ==
  [][ \A s \in Sessions :
        /\ \A i \in 1..Len(sent') :
             (sent'[i].s = s /\ sent'[i].frame.method # "RESPONSE") =>
               /\ sent'[i].frame.reqid > reqid[s]
               /\ \A j \in 1..(i - 1) :
                    (sent'[j].s = s /\ sent'[j].frame.method # "RESPONSE") =>
                      sent'[j].frame.reqid < sent'[i].frame.reqid
        /\ \A rid \in DOMAIN deferreds'[s] \ DOMAIN deferreds[s] : rid > reqid[s]
        /\ (last'.op = "RESPONSE" /\ last'.s = s) =>
             \A rid \in DOMAIN deferreds[s] :
               IF rid = last'.rid /\ rid \in requests[s]
               THEN /\ deferreds'[s][rid].state # "pending"
                    /\ deferreds'[s][rid].value = answers'[s][rid].res
               ELSE deferreds'[s][rid] = deferreds[s][rid] ]_vars

C4_Witness ==
  /\ last.op = "RESPONSE" /\ last.rid = 2
  /\ reqid[1] = 2
  /\ deferreds[1][2].state = "resolved"
  /\ deferreds[1][1].state = "pending"

\* C5: after a session closed, the device registry holds none of the device
\* ids the peer had registered over it, and the session's table of proxies by
\* deviceid is empty.
C5_CloseDeregistersPeerDevices ==
  [][ last'.op = "close" =>
        /\ connProxies'[last'.s] = << >>
        /\ \A k \in OKeys(connProxies[last'.s]) :
             ~OHas(devices', getDeviceAuthority(World, k).deviceid) ]_vars

\* C6: after a session closed, its table of devices by connid and its table
\* of proxy connections by deviceid are empty, and no listener the session
\* attached is left on any device.
C6_CloseDetachesBindings ==
  \A s \in Sessions :
    ws[s] = "closed" =>
      /\ connDevices[s] = EmptyMap
      /\ proxyConnections[s] = EmptyMap
      /\ \A o \in DOMAIN listeners : \A i \in 1..Len(listeners[o]) :
           ~(listeners[o][i].kind = "websocket" /\ listeners[o][i].s = s)

\* C7: when a gateway-mode session closes, the gateway entry it registered is
\* removed and every gateway entry registered by another session stays.
C7_CloseRemovesOwnGatewayOnly ==
  [][ (last'.op = "close" /\ options[last'.s].gateway) =>
        /\ \A d \in DOMAIN gateways' : gateways'[d] # last'.s
        /\ \A d \in DOMAIN gateways :
             gateways[d] # last'.s =>
               (Has(gateways', d) /\ gateways'[d] = gateways[d]) ]_vars

\* C8: register(id, device) for an id whose normalized form is already in the
\* device registry is rejected and changes nothing: the registered device, the
\* listeners of every device and the proxies stay, nothing is sent to a gateway.
C8_DuplicateRegisterFails ==
  [][ (last'.op = "register"
        /\ OHas(devices, getDeviceAuthority(World, last'.id).deviceid)) =>
        /\ last'.ret = "rejected" /\ ~last'.threw
        /\ devices' = devices
        /\ listeners' = listeners
        /\ proxies' = proxies
        /\ connDevices' = connDevices
        /\ requests' = requests /\ reqid' = reqid
        /\ sent' = << >> ]_vars

C8_Witness ==
  /\ last.op = "register" /\ last.ret = "rejected"
  /\ last.id = << "A" >>
  /\ OHas(devices, << ".", ":", "a" >>)
  /\ gateways # EmptyMap

\* C9: deregister(id) for an id that is not in the device registry is
\* rejected and changes nothing: both registries and the listeners stay,
\* nothing is sent to a gateway.
C9_DeregisterUnknownFails ==
  [][ (last'.op = "deregister"
        /\ ~OHas(devices, getDeviceAuthority(World, last'.id).deviceid)) =>
        /\ last'.ret = "rejected" /\ ~last'.threw
        /\ devices' = devices
        /\ listeners' = listeners
        /\ proxies' = proxies
        /\ connDevices' = connDevices
        /\ connProxies' = connProxies
        /\ proxyConnections' = proxyConnections
        /\ gateways' = gateways
        /\ requests' = requests /\ reqid' = reqid
        /\ sent' = << >> ]_vars

C9_Witness ==
  /\ last.op = "deregister" /\ last.ret = "rejected"
  /\ last.id = << "A" >>
  /\ ~OHas(devices, << ".", ":", "a" >>)
  /\ Has(proxies, << ".", ":", "a" >>)
  /\ gateways # EmptyMap

\* C10: a successful register(id, device) followed by deregister(id) leaves
\* the node as it was before the register: the same device registry, the
\* same proxies for the id, the same listeners on the device, also when a
\* gateway was registered or deregistered between the two calls.
C10_RegisterThenDeregisterRestores ==
  (/\ last.op = "deregister"
   /\ prior.id # << >>
   /\ prior.id = getDeviceAuthority(World, last.id).deviceid) =>
     /\ devices = prior.devices
     /\ (IF Has(proxies, prior.id) THEN proxies[prior.id] ELSE << >>)
          = prior.proxies
     /\ listenersOf(World, prior.device) = prior.listeners

Events(tr, e) == SelectSeq(tr, LAMBDA x : x.e = e)

\* C12: when a PUT or NOTIFY reaches the upstream final handler, the event is
\* emitted once on every proxy that was in the id's Proxy Registry list when
\* the handler started, in the order of the list, whatever the subscribers
\* of the proxies do, and the dispatch yields true.
C12_FanOutReachesEveryProxy ==
  [][(last'.op = "emit" /\ Events(trace', "final") # << >>) =>
       LET old == IF Has(proxies, FanOutId) THEN proxies[FanOutId] ELSE << >>
           emits == Events(trace', "emit")
           results == Events(trace', "result")
       IN /\ [i \in 1..Len(emits) |-> emits[i].obj] = old
          /\ \A i \in 1..Len(emits) : emits[i].k = last'.id[1]
          /\ Len(results) = 1
          /\ results[1].k = "resolved" /\ results[1].id = JSTrue]_vars

\* C13: a downstream request reaches the implementation of a device only
\* after every handler of the pipeline of the node that is authoritative for
\* the id has seen it: a call made by the application on a proxy, for an id
\* this node is not authoritative for, never invokes the local device, and
\* where this node is authoritative the handlers 1..n are visited in order
\* before the device is invoked.
C13_DownstreamThroughAuthority ==
  [][(last'.op \in downstreamCommands /\ last'.s = 0
      /\ Events(trace', "device") # << >>) =>
       /\ getDeviceAuthority(World, last'.id).isLocal
       /\ LET visits == Events(SubSeq(trace', 1,
                          CHOOSE j \in 1..Len(trace') : trace'[j].e = "device"),
                          "layer")
          IN [i \in 1..Len(visits) |-> visits[i].i] = [i \in 1..Len(stack) |-> i]
    ]_vars

\* C14: while a gateway resolves for the domain of the id, connect(id) puts
\* exactly one CONNECT frame for the normalized id on the gateway's session,
\* returns a promise and leaves the Proxy Registry alone, whether or not a
\* native device is registered for the id; the proxy the application gets
\* when the peer answers is a WebSocketDeviceProxy bound to that session, and
\* the application never holds a LocalDeviceProxy.
C14_ConnectDelegatesToGateway ==
  [][/\ (last'.op = "connect"
         /\ getDeviceAuthority(World, last'.id).gateway # NoGateway) =>
          LET authority == getDeviceAuthority(World, last'.id)
          IN /\ Len(sent') = 1
             /\ sent'[1].s = authority.gateway
             /\ sent'[1].frame.method = "CONNECT"
             /\ sent'[1].frame.deviceid = authority.deviceid
             /\ last'.ret = "promise"
             /\ proxies' = proxies
             /\ handles' = handles
     /\ (last'.op = "RESPONSE" /\ handles' # handles) =>
          /\ proxies' = proxies
          /\ \E p \in handles' \ handles :
               /\ handles' = handles \cup {p}
               /\ p.kind = "WebSocketDeviceProxy"
               /\ p.s = last'.s
               /\ gateways # EmptyMap
     /\ \A p \in handles' : p.kind # "LocalDeviceProxy"
    ]_vars

\* the application holds a remote proxy for an id that has a native device
\* registered on this node
C14_Witness ==
  /\ last.op = "RESPONSE"
  /\ \E p \in handles :
       /\ p.kind = "WebSocketDeviceProxy"
       /\ OHas(devices, p.id)
       /\ OGet(devices, p.id).kind = "EventEmitter"
       /\ Has(proxies, p.id) /\ Len(proxies[p.id]) = 1

\* C15: whenever a native device is registered for an id whose authority is
\* a gateway, the Proxy Registry holds exactly one proxy for the id, a
\* LocalDeviceProxy.
C15_ExactlyOneLocalProxy ==
  \A i \in 1..Len(devices) :
    (/\ devices[i].v \in NativeDevices
     /\ getDeviceAuthority(World, devices[i].k).gateway # NoGateway) =>
       /\ Has(proxies, devices[i].k)
       /\ Len(proxies[devices[i].k]) = 1
       /\ proxies[devices[i].k][1].kind = "LocalDeviceProxy"

\* C16: a REGISTER for an id the session already holds a proxy for is
\* answered with one failure RESPONSE saying "Already registered", changes
\* no registry and creates no proxy, and the id is in the Device Registry,
\* bound to the proxy of the session's first registration.
C16_SecondRegisterRefused ==
  [][(last'.op = "REGISTER" /\ OHas(connProxies[last'.s], last'.id)) =>
       LET s == last'.s
           deviceid == getDeviceAuthority(World, last'.id).deviceid
       IN /\ Len(sent') = 1
          /\ sent'[1].frame.method = "RESPONSE"
          /\ sent'[1].frame.reqid = last'.rid
          /\ ~sent'[1].frame.success
          /\ sent'[1].frame.err = << "Already registered" >>
          /\ connProxies' = connProxies
          /\ devices' = devices /\ proxies' = proxies
          /\ listeners' = listeners
          /\ OHas(devices', deviceid)
          /\ OGet(devices', deviceid) = OGet(connProxies[s], last'.id)
    ]_vars

\* C17: a DEREGISTER for an id the session holds no proxy for is answered
\* with one failure RESPONSE saying "Unknown device" and changes nothing; a
\* DEREGISTER for an id it holds a proxy for removes the session's entry and
\* the id's entry in the Device Registry and is answered with one success
\* RESPONSE.
C17_DeregisterFrame ==
  [][last'.op = "DEREGISTER" =>
       LET s == last'.s
           deviceid == getDeviceAuthority(World, last'.id).deviceid
       IN IF ~OHas(connProxies[s], last'.id)
          THEN /\ Len(sent') = 1
               /\ sent'[1].frame.reqid = last'.rid
               /\ ~sent'[1].frame.success
               /\ sent'[1].frame.err = << "Unknown device" >>
               /\ connProxies' = connProxies /\ connDevices' = connDevices
               /\ devices' = devices /\ proxies' = proxies
               /\ listeners' = listeners /\ gateways' = gateways
          ELSE /\ ~OHas(connProxies'[s], last'.id)
               /\ ~OHas(devices', deviceid)
               /\ Len(SelectSeq(sent', LAMBDA f : f.frame.method = "RESPONSE")) = 1
               /\ \E i \in 1..Len(sent') :
                    /\ sent'[i].frame.method = "RESPONSE"
                    /\ sent'[i].frame.reqid = last'.rid
                    /\ sent'[i].frame.success
    ]_vars

\* the handlers and final handlers a dispatch visited, in order
Visits(tr) ==
  LET sel == SelectSeq(tr, LAMBDA x : x.e \in {"layer", "final"})
  IN [j \in 1..Len(sel) |-> << sel[j].e, sel[j].i, sel[j].k >>]

\* C18: with a stack of n handlers that all return next(), a request of the
\* application visits the handlers 1, ..., n in this order and then the
\* downstream final handler; a PUT or NOTIFY of a device visits the handlers
\* n, ..., 1 and then the upstream final handler; no handler is visited twice.
C18_PipelineOrder ==
  ((\A i \in 1..Len(stack) : stack[i] = "forward")
   /\ Events(trace, "result") # << >>) =>
     LET n == Len(stack)
         method == IF last.op = "emit"
                   THEN (IF last.id = << "put" >> THEN "PUT" ELSE "NOTIFY")
                   ELSE last.op
     IN Visits(trace) =
          [j \in 1..(n + 1) |->
             IF j > n THEN << "final", 0, method >>
             ELSE IF method \in downstreamCommands THEN << "layer", j, method >>
             ELSE << "layer", n + 1 - j, method >>]

\* a notification of the device went up through two forwarding handlers
C18_Witness ==
  /\ stack = << "forward", "forward" >>
  /\ last.op = "emit"
  /\ Len(Visits(trace)) = 3
  /\ Visits(trace)[1][2] = 2

\* the results that are not empty among the first j entries of a record of
\* calls: what the layers returned, exceptions and `undefined` left out
Results(tr, j) ==
  SelectSeq(SubSeq(tr, 1, j),
            LAMBDA x : x.e = "return" /\ x.k \notin {"undefined", "thrown"})

\* C19: when a handler that called next() returns nothing and a deeper
\* handler or the final handler has returned a result that is not empty, what
\* the dispatcher hands to the caller of that handler (the handler before it,
\* or the caller of dispatch) is the last such result.
C19_SubstitutesDeeperResult ==
  \A j \in 1..Len(trace) :
    (/\ trace[j].e = "return" /\ trace[j].k = "undefined"
     /\ trace[j].i >= 1
     /\ stack[trace[j].i] = "nothing"
     /\ Results(trace, j) # << >>) =>
       LET deeper == Results(trace, j)[Len(Results(trace, j))]
       IN /\ j < Len(trace)
          /\ trace[j + 1].e \in {"next", "result"}
          /\ trace[j + 1].k = (IF deeper.k = "value" THEN "resolved" ELSE deeper.k)
          /\ trace[j + 1].id = deeper.id

\* the only handler returned nothing and the caller got the device's value
C19_Witness ==
  /\ stack = << "nothing" >>
  /\ last.op = "GET" /\ last.ret = "resolved"
  /\ \E j \in 1..Len(trace) :
       trace[j].e = "result" /\ trace[j].id = << "v" >>

\* the handlers a request passes before it gets to the handler at index i
Before(i, method) ==
  IF method \in downstreamCommands THEN 1..(i - 1) ELSE (i + 1)..Len(stack)

\* C20: when a handler throws instead of calling next(), the handler before
\* it (or the caller of dispatch) gets a rejected promise carrying the
\* exception from its call of next(), no further handler and no final
\* handler is invoked, and unless a handler before it turns the failure into
\* a result, the promise dispatch returns is rejected with that exception.
C20_FailureGoesBackUp ==
  \A j \in 1..Len(trace) :
    (/\ trace[j].e = "return" /\ trace[j].k = "thrown"
     /\ trace[j].i >= 1
     /\ stack[trace[j].i] = "throw") =>
       LET k == trace[j].i
           visits == Visits(trace)
           results == Events(trace, "result")
       IN /\ j < Len(trace)
          /\ trace[j + 1].e \in {"next", "result"}
          /\ trace[j + 1].k = "rejected"
          /\ trace[j + 1].id = trace[j].id
          /\ visits[Len(visits)][1] = "layer" /\ visits[Len(visits)][2] = k
          /\ (\A i \in Before(k, visits[1][3]) : stack[i] \in {"forward", "nothing"})
               => /\ Len(results) = 1
                  /\ results[1].k = "rejected"
                  /\ results[1].id = trace[j].id

\* 'Layer ' + layer.name + ' must invoke next() or return a value.'
MustInvoke(i) ==
  << "Layer", IF i = 0 THEN << "finalHandler" >> ELSE << "layer" >>,
     "must invoke next() or return a value." >>

\* C21: when a layer returns nothing and no layer below it has returned a
\* result (a handler that neither calls next() nor returns a value, or a
\* final handler that returns nothing), next() hands up a promise rejected
\* with the 'must invoke next() or return a value' error; unless a handler
\* above turns it into something else this is the result of the dispatch,
\* and no dispatch ever resolves with an empty value.
C21_EmptyResultFails ==
  /\ \A j \in 1..Len(trace) :
       (/\ trace[j].e = "return" /\ trace[j].k = "undefined"
        /\ Results(trace, j) = << >>) =>
          LET results == Events(trace, "result")
          IN /\ j < Len(trace)
             /\ trace[j + 1].e \in {"next", "result"}
             /\ trace[j + 1].k = "rejected"
             /\ trace[j + 1].id = MustInvoke(trace[j].i)
             /\ (\A i \in (IF trace[j].i = 0 THEN 1..Len(stack)
                         ELSE Before(trace[j].i, Visits(trace)[1][3])) :
                    stack[i] \in {"forward", "nothing"})
                  => /\ Len(results) = 1
                     /\ results[1].k = "rejected"
                     /\ results[1].id[3] = MustInvoke(0)[3]
  /\ \A j \in 1..Len(trace) :
       trace[j].e = "result" => ~(trace[j].k = "resolved" /\ trace[j].id = UNDEFINED)

\* a GET went through a forwarding handler to a device that returned nothing
C21_Witness ==
  /\ stack = << "forward" >>
  /\ last.op = "GET" /\ last.ret = "rejected"
  /\ \E j \in 1..Len(trace) :
       trace[j].e = "return" /\ trace[j].i = 0 /\ trace[j].k = "undefined"

\* C22: at the downstream final handler a request for an id that is not in
\* the Device Registry fails with "Device '<id>' is not connected." and no
\* method of any device is called; a request for a registered id makes
\* exactly one call, of the method of the registered device that matches the
\* verb, with the identifier of the request and, for SET and INVOKE, its
\* value or params.
C22_FinalHandlerDelivers ==
  \A j \in 1..Len(trace) :
    (trace[j].e = "final" /\ trace[j].k \in downstreamCommands) =>
      LET id == trace[j].id
          calls == Events(trace, "device")
          returns == SelectSeq(trace, LAMBDA x : x.e = "return" /\ x.i = 0)
          results == Events(trace, "result")
      IN IF ~OHas(devices, id)
         THEN /\ calls = << >>
              /\ Len(returns) = 1 /\ returns[1].k = "thrown"
              /\ returns[1].id = << "Device '" >> \o id \o << "' is not connected." >>
              /\ (\A i \in 1..Len(stack) : stack[i] = "forward")
                   => /\ Len(results) = 1 /\ results[1].k = "rejected"
                      /\ results[1].id = returns[1].id
         ELSE /\ Len(calls) = 1
              /\ calls[1].k = trace[j].k
              /\ calls[1].obj = OGet(devices, id)
              /\ calls[1].id = IF trace[j].k = "GET" THEN << ApiIdentifier >>
                               ELSE << ApiIdentifier, ApiValue >>

\* a SET of the application reached the registered device
C22_Witness ==
  /\ last.op = "SET"
  /\ \E j \in 1..Len(trace) : trace[j].e = "device" /\ trace[j].k = "SET"

\* a GET of the application for an id that is not registered was refused
C22_WitnessNotConnected ==
  /\ last.op = "GET" /\ last.ret = "rejected"
  /\ \E j \in 1..Len(trace) : trace[j].e = "final"
  /\ ~OHas(devices, last.id)

\* C23: when the downstream final handler has called set or invoke of a
\* device and the call returned, the final handler yields true if the device
\* returned nothing, and the value the device returned otherwise.
C23_SetInvokeNeverEmpty ==
  \A j \in 1..Len(trace) :
    (/\ trace[j].e = "answer" /\ trace[j].k # "thrown"
     /\ Events(trace, "device")[1].k \in {"SET", "INVOKE"}) =>
      LET returns == SelectSeq(trace, LAMBDA x : x.e = "return" /\ x.i = 0)
      IN /\ Len(returns) = 1 /\ returns[1].k = "value"
         /\ returns[1].id = IF trace[j].k = "undefined" THEN JSTrue
                            ELSE trace[j].id

\* the authority getDeviceAuthority returned for the id the application gave
Resolved(tr) == SelectSeq(tr, LAMBDA x : x.e = "authority" /\ x.i = 1)
\* the authority it returned for the deviceid of that authority
ResolvedAgain(tr) == SelectSeq(tr, LAMBDA x : x.e = "authority" /\ x.i = 2)

\* C24: an id that starts with a colon has the empty domain; the authority
\* of an id with the empty domain is local, not routable and without gateway
\* whatever the gateway table holds; the authority of any other id has the
\* gateway registered for its domain, else the gateway registered for '*',
\* else none, and is local exactly when it has no gateway.
C24_AuthorityDecision ==
  \A j \in 1..Len(Resolved(trace)) :
    LET x == Resolved(trace)[j].id
        authority == Resolved(trace)[j].k
    IN /\ (x # << >> /\ Head(x) = ":") => authority.domain = << >>
       /\ IF authority.domain = << >>
          THEN /\ authority.isLocal /\ ~authority.isRoutable
               /\ authority.gateway = NoGateway
          ELSE /\ authority.gateway =
                    IF Has(gateways, authority.domain)
                    THEN gateways[authority.domain]
                    ELSE IF Has(gateways, Wildcard) THEN gateways[Wildcard]
                    ELSE NoGateway
               /\ authority.isLocal <=> authority.gateway = NoGateway

\* an id of domain e was resolved while both e and '*' have a gateway
C24_Witness ==
  /\ Has(gateways, << "e" >>) /\ Has(gateways, Wildcard)
  /\ Resolved(trace) # << >>
  /\ Resolved(trace)[1].k.domain = << "e" >>
  /\ Resolved(trace)[1].k.gateway = gateways[<< "e" >>]

\* C25: resolving the deviceid of an authority gives the same deviceid,
\* domain, isLocal, isRoutable and gateway again, and the deviceid and the
\* domain of an authority are lowercase.
C25_ResolutionIdempotent ==
  \A j \in 1..Len(Resolved(trace)) :
    LET a1 == Resolved(trace)[j].k
        a2 == ResolvedAgain(trace)[j].k
    IN /\ a2.deviceid = a1.deviceid /\ a2.domain = a1.domain
       /\ a2.isLocal = a1.isLocal /\ a2.isRoutable = a1.isRoutable
       /\ a2.gateway = a1.gateway
       /\ toLowerCase(a1.deviceid) = a1.deviceid
       /\ toLowerCase(a1.domain) = a1.domain

\* the domain a gateway session registers its gateway for
GatewayDomainOf(domain) == toLowerCase(IF domain = << >> THEN Wildcard ELSE domain)

\* C26: the domains of the gateway table are lowercase; registerGateway for
\* a domain whose lowercase form is in the table throws and leaves the table
\* and the registries of devices, proxies and listeners as they were, and
\* otherwise puts the gateway in the table; deregisterGateway for a domain
\* that is not in the table throws and changes none of them, and otherwise
\* removes the entry.
C26_OneGatewayPerDomain ==
  [][/\ \A d \in DOMAIN gateways' : toLowerCase(d) = d
     /\ last'.op = "open" =>
          IF Has(gateways, GatewayDomainOf(last'.id))
          THEN /\ last'.threw
               /\ UNCHANGED << gateways, devices, proxies, listeners,
                               connDevices, connProxies, requests >>
          ELSE /\ ~last'.threw
               /\ DOMAIN gateways' =
                    DOMAIN gateways \cup {GatewayDomainOf(last'.id)}
               /\ gateways'[GatewayDomainOf(last'.id)] = last'.s
               /\ \A d \in DOMAIN gateways : gateways'[d] = gateways[d]
     /\ last'.op = "deregisterGateway" =>
          IF ~Has(gateways, toLowerCase(last'.id))
          THEN /\ last'.threw
               /\ UNCHANGED << gateways, devices, proxies, listeners,
                               connDevices, connProxies, requests >>
          ELSE /\ ~last'.threw
               /\ gateways' = Del(gateways, toLowerCase(last'.id))]_vars

\* a session asked for the gateway of E while another session held e
C26_Witness ==
  /\ last.op = "open" /\ last.threw /\ last.id = << "E" >>
  /\ Has(gateways, << "e" >>) /\ gateways[<< "e" >>] # last.s

C28_ConnidFresh ==
  [][(last'.op \in {"CONNECT", "register", "open"}) =>
       \A s \in Sessions :
         /\ \A c \in DOMAIN connDevices[s] :
              /\ Has(connDevices'[s], c)
              /\ connDevices'[s][c] = connDevices[s][c]
         /\ (last'.op = "CONNECT" /\ last'.s = s
             /\ Len(sent') = 1 /\ sent'[1].frame.success)
              => ~Has(connDevices[s], sent'[1].frame.res)
    ]_vars

\* what the listeners of proxy p have been called with
ObservedOn(p) ==
  LET sel == SelectSeq(master.observed, LAMBDA x : x.obj = p)
  IN [i \in 1..Len(sel) |-> sel[i].args]

\* the event x as the device emitted it, and as the link is to deliver it: a
\* put unchanged, a notify with its params as a list
AsEmitted(x) == x.args
AsDelivered(x) ==
  << x.args[1],
     IF x.ev = "notify" /\ ~isArray(x.args[2])
     THEN << "[" >> \o x.args[2] \o << "]" >>
     ELSE x.args[2] >>

\* the events of em from index i on, each once for every listener that was
\* on proxy p for it when the device emitted it, as emitted or as delivered
RECURSIVE CallsFrom(_, _, _, _)
CallsFrom(em, p, i, delivered) ==
  IF i > Len(em) THEN << >>
  ELSE (IF p \in em[i].objs
        THEN [k \in 1..em[i].subs[p] |->
                IF delivered THEN AsDelivered(em[i]) ELSE AsEmitted(em[i])]
        ELSE << >>) \o CallsFrom(em, p, i + 1, delivered)

EmittedFor(p) == CallsFrom(master.emitted, p, 1, FALSE)
ExpectedOn(p) == CallsFrom(master.emitted, p, 1, TRUE)

\* s is the beginning of t
IsPrefix(s, t) == Len(s) <= Len(t) /\ s = SubSeq(t, 1, Len(s))

\* the frames an event causes end: the container answers the PUT or NOTIFY
\* that comes back from the master with one RESPONSE and sends nothing else,
\* and a RESPONSE makes neither node send a frame
LinkFramesEnd ==
  /\ (last'.op \in upstreamCommands /\ last'.s = 1) =>
       /\ Len(sent') = 1
       /\ sent'[1].frame.method = "RESPONSE"
       /\ sent'[1].frame.reqid = last'.rid
  /\ last'.op = "RESPONSE" => sent' = << >>
  /\ (last'.op = "master" /\ last'.id = << "RESPONSE" >>) =>
       master'.toContainer = master.toContainer

\* C29: what the listeners of a Remote Device Proxy have been called with is
\* at any time the beginning of what the device has emitted since they
\* subscribed, and all of it once no frame is on its way: every listener sees
\* every put and notify exactly once, with the name and the value the device
\* gave it, and the frames it causes end.
C29_EventReachesProxyOnce ==
  [][/\ \A p \in handles' :
          /\ IsPrefix(ObservedOn(p), EmittedFor(p))'
          /\ LinkQuiet' => (ObservedOn(p) = EmittedFor(p))'
     /\ LinkFramesEnd
    ]_vars

\* C29 with the params of a notify compared as the list they are delivered
\* as: every listener sees every put and notify exactly once.
C29_EventReachesProxyOnceAsList ==
  [][\A p \in handles' :
       /\ IsPrefix(ObservedOn(p), ExpectedOn(p))'
       /\ LinkQuiet' => (ObservedOn(p) = ExpectedOn(p))'
    ]_vars

\* C29, the frames alone: what an event causes on the link ends
C29_FramesEnd == [][LinkFramesEnd]_vars

\* C30: every id in a session's proxiesByDeviceid is bound in the Device
\* Registry, under its normalized form, to the proxy the session created for
\* it; a REGISTER for an id the Device Registry already holds for someone
\* else is answered with a failure and is not recorded by the session.
C30_RegisteredMeansInRegistry ==
  [][/\ \A s \in Sessions : \A k \in OKeys(connProxies'[s]) :
          LET deviceid == getDeviceAuthority(World', k).deviceid
          IN /\ OHas(devices', deviceid)
             /\ OGet(devices', deviceid) = OGet(connProxies'[s], k)
     /\ (/\ last'.op = "REGISTER"
         /\ ~OHas(connProxies[last'.s], last'.id)
         /\ OHas(devices, getDeviceAuthority(World, last'.id).deviceid)) =>
          /\ Len(sent') = 1
          /\ sent'[1].frame.method = "RESPONSE"
          /\ ~sent'[1].frame.success
          /\ ~OHas(connProxies'[last'.s], last'.id)
    ]_vars

\* C31: a DISCONNECT for a connid the session has not bound is answered with
\* one failure RESPONSE, changes nothing and ends there, without a call of
\* the node; a DISCONNECT for a bound connid takes the listeners off the
\* bound proxy, removes the binding, takes the proxy out of the Proxy
\* Registry and is answered with one success RESPONSE.  A PUT or NOTIFY is
\* only ever sent with a connid that is bound when it is sent.
C31_DisconnectFrame ==
  [][/\ last'.op = "DISCONNECT" =>
          LET s == last'.s
              connid == last'.connid
          IN /\ Len(sent') = 1
             /\ sent'[1].frame.method = "RESPONSE"
             /\ sent'[1].frame.reqid = last'.rid
             /\ ~last'.threw
             /\ IF ~Has(connDevices[s], connid)
                THEN /\ ~sent'[1].frame.success
                     /\ connDevices' = connDevices /\ connProxies' = connProxies
                     /\ devices' = devices /\ proxies' = proxies
                     /\ listeners' = listeners /\ gateways' = gateways
                ELSE /\ sent'[1].frame.success
                     /\ ~Has(connDevices'[s], connid)
                     /\ ~Has(listeners', connDevices[s][connid])
                     /\ \A k \in DOMAIN proxies' :
                          indexOf(proxies'[k], connDevices[s][connid]) = 0
     /\ \A i \in 1..Len(sent') :
          sent'[i].frame.method \in upstreamCommands =>
            Has(connDevices[sent'[i].s], sent'[i].frame.connid)
    ]_vars

\* a DISCONNECT for a bound connid has been answered with success
C31_Witness ==
  /\ last.op = "DISCONNECT" /\ ~last.threw
  /\ Len(sent) = 1 /\ sent[1].frame.success

\* the proxies the session finds for deviceid: the one it registered, or
\* else the ones it gave to callers of connect
ProxiesFor(s, deviceid) ==
  IF OHas(connProxies[s], deviceid) THEN << OGet(connProxies[s], deviceid) >>
  ELSE IF Has(proxyConnections[s], deviceid) THEN proxyConnections[s][deviceid]
  ELSE << >>

\* the outcome W1 of the frame handler for the PUT or NOTIFY frame msg: one
\* success RESPONSE, and one emit on each of ps, with value
UpstreamDone(W1, s, msg, ps, value) ==
  LET emits == Events(W1.trace, "proxy.emit")
      rs == SelectSeq(W1.sent, LAMBDA f : f.frame.method = "RESPONSE")
  IN /\ ~W1.threw
     /\ Len(rs) = 1
     /\ rs[1].s = s /\ rs[1].frame.success /\ rs[1].frame.reqid = msg.reqid
     /\ Len(emits) = Len(ps)
     /\ \A i \in 1..Len(emits) :
          /\ emits[i].obj = ps[i]
          /\ emits[i].k = (IF msg.method = "PUT" THEN "put" ELSE "notify")
          /\ emits[i].id = << msg.identifier, value >>

\* C32: whatever PUT or NOTIFY frame arrives in whatever state of the open
\* session, the event is emitted once on each proxy found for the frame's
\* deviceid (the registered proxy, or else every proxy given to connect), a
\* NOTIFY value that is not a list goes out as a one-element list, and
\* exactly one success RESPONSE is sent, also when subscribers throw or no
\* proxy is found.
C32_UpstreamFrame ==
  \A m \in upstreamCommands, id \in UpstreamIds, v \in EmitValues :
    ws[1] = "open" =>
      UpstreamDone(processMessage(World, 1,
                                  [text |-> "json", msg |-> UpstreamFrame(m, id, v)],
                                  [binary |-> FALSE], NoInput),
                   1, UpstreamFrame(m, id, v), ProxiesFor(1, id),
                   IF m = "NOTIFY" /\ ~isArray(v)
                   THEN << "[" >> \o v \o << "]" >> ELSE v)

\* a NOTIFY has been emitted on two proxies given to connect, the subscriber
\* of the first one threw, and the RESPONSE went out
C32_Witness ==
  /\ last.op = "NOTIFY" /\ ~last.threw
  /\ Len(Events(trace, "proxy.emit")) = 2
  /\ \E i \in 1..Len(trace) : trace[i].e = "listener" /\ trace[i].k = "throw"
  /\ Len(sent) = 1 /\ sent[1].frame.success

\* the connids session g has bound to a Local Device Proxy of deviceid
BoundFor(g, deviceid) ==
  {c \in DOMAIN connDevices[g] :
     /\ connDevices[g][c].kind = "LocalDeviceProxy"
     /\ deviceidOf(connDevices[g][c]) = deviceid}

\* C33: deregister(id) of a device that was registered through the gateway
\* takes the id out of the Device Registry, deletes the id's entry of the
\* Proxy Registry, releases the connid the gateway session bound at register
\* with the listeners of the bound proxy, and sends one DEREGISTER frame with
\* the device id and that connid to the gateway.
C33_DeregisterThroughGateway ==
  [][(/\ last'.op = "deregister"
      /\ getDeviceAuthority(World, last'.id).isValid
      /\ getDeviceAuthority(World, last'.id).gateway # NoGateway
      /\ OHas(devices, getDeviceAuthority(World, last'.id).deviceid)
      /\ BoundFor(getDeviceAuthority(World, last'.id).gateway,
                  getDeviceAuthority(World, last'.id).deviceid) # {}) =>
       LET deviceid == getDeviceAuthority(World, last'.id).deviceid
           g == getDeviceAuthority(World, last'.id).gateway
       IN /\ ~last'.threw
          /\ ~OHas(devices', deviceid)
          /\ ~Has(proxies', deviceid)
          /\ \E c \in BoundFor(g, deviceid) :
               /\ ~Has(connDevices'[g], c)
               /\ ~Has(listeners', connDevices[g][c])
               /\ Len(sent') = 1
               /\ sent'[1].s = g
               /\ sent'[1].frame.method = "DEREGISTER"
               /\ sent'[1].frame.deviceid = deviceid
               /\ sent'[1].frame.connid = c
    ]_vars

\* the REGISTER frames for deviceid among frames, on session s
RegistersOf(frames, s, deviceid) ==
  SelectSeq(frames, LAMBDA f : /\ f.s = s /\ f.frame.method = "REGISTER"
                               /\ f.frame.deviceid = deviceid)

\* the id's list in a Proxy Registry
ListOf(reg, deviceid) == IF Has(reg, deviceid) THEN reg[deviceid] ELSE << >>

\* C34: when a session registers its gateway, every device of the Device
\* Registry whose authority is now that gateway gets one more Local Device
\* Proxy at the end of its Proxy Registry list and one REGISTER frame on the
\* session; for every other device the list stays as it was and no REGISTER
\* is sent; the gatewayRegistered event is raised at the end.
C34_GatewayTakesDevices ==
  [][(/\ last'.op = "open" /\ ~last'.threw
      /\ options'[last'.s].gateway) =>
       /\ last'.ret = "gatewayRegistered"
       /\ \A i \in 1..Len(devices) :
            LET k == devices[i].k
                n == Len(ListOf(proxies, k))
            IN IF getDeviceAuthority(World', k).gateway = last'.s
               THEN /\ Len(RegistersOf(sent', last'.s, k)) = 1
                    /\ Len(ListOf(proxies', k)) = n + 1
                    /\ SubSeq(ListOf(proxies', k), 1, n) = ListOf(proxies, k)
                    /\ ListOf(proxies', k)[n + 1].kind = "LocalDeviceProxy"
                    /\ deviceidOf(ListOf(proxies', k)[n + 1]) = k
               ELSE /\ RegistersOf(sent', last'.s, k) = << >>
                    /\ ListOf(proxies', k) = ListOf(proxies, k)
       /\ \A i \in 1..Len(devices) :
            LET k == devices[i].k
            IN (\/ Head(k) = ":"
                \/ \E d \in DOMAIN gateways' :
                     gateways'[d] # last'.s /\ IsPrefix(d \o << ":" >>, k)) =>
                 RegistersOf(sent', last'.s, k) = << >>
       /\ Len(SelectSeq(sent', LAMBDA f : f.frame.method = "REGISTER"))
            <= Len(devices)
    ]_vars

\* a second gateway has been registered, for the domain of a device that
\* the first one had been given: the device went to the new gateway too,
\* the core device did not
C34_Witness ==
  /\ last.op = "open" /\ ~last.threw /\ last.s = 2
  /\ Cardinality(DOMAIN gateways) = 2
  /\ Len(devices) = 2
  /\ Len(sent) = 1 /\ sent[1].frame.method = "REGISTER"

\* register(id, device) has just sent its REGISTER on gateway session s, as
\* request reqid[s]
RegisterSent(s) ==
  /\ last.op = "register" /\ ~last.threw /\ last.ret = "promise"
  /\ getDeviceAuthority(World, last.id).gateway = s
  /\ reqid[s] \in requests[s]

\* C35: when the REGISTER a register() has sent is answered with a failure,
\* or the session closes before an answer, the promise of the request is
\* rejected and the container is as it was before the registration: no
\* connid of the session is bound to a proxy of the id, and the id's Proxy
\* Registry list is the one it had before.
C35_FailedRegisterUndone ==
  [][(/\ RegisterSent(1)
      /\ \/ last'.op = "close" /\ last'.s = 1
         \/ /\ last'.op = "RESPONSE" /\ last'.s = 1 /\ last'.rid = reqid[1]
            /\ answers'[1][reqid[1]].success = FALSE) =>
       LET deviceid == getDeviceAuthority(World, last.id).deviceid
       IN /\ deferreds'[1][reqid[1]].state = "rejected"
          /\ \A c \in DOMAIN connDevices'[1] :
               deviceidOf(connDevices'[1][c]) # deviceid
          /\ ListOf(proxies', deviceid) = prior.proxies
    ]_vars

\* the turns of the fan-out that emitted on the proxy p
TurnsOn(emits, p) == { j \in 1..Len(emits) : emits[j].obj = p }

\* C36: the upstream fan-out works on the proxies that were attached to the
\* id when the final handler started: each of them gets the notification
\* exactly once, and no other proxy gets it, even when a subscriber releases
\* (or attaches) a proxy of the id while the fan-out runs.
C36_FanOutOnSnapshot ==
  [][(last'.op = "emit" /\ Events(trace', "final") # << >>) =>
       LET attached == IF Has(proxies, FanOutId) THEN proxies[FanOutId]
                       ELSE << >>
           emits == Events(trace', "emit")
       IN /\ \A i \in 1..Len(attached) :
               Cardinality(TurnsOn(emits, attached[i])) = 1
          /\ \A j \in 1..Len(emits) :
               \E i \in 1..Len(attached) : attached[i] = emits[j].obj]_vars

\* the Local Proxies a session holds for the CONNECTs of its peer
ConnectedFor(s) ==
  { connDevices[s][c] : c \in { x \in DOMAIN connDevices[s] :
                                 connDevices[s][x].kind = "LocalDeviceProxy" } }

\* C37: a Local Proxy a master created for a CONNECT of its peer is gone from
\* the Proxy Registry once the session that issued the CONNECT has closed.
C37_ClosedSessionProxiesGone ==
  [][(last'.op = "close" /\ last'.s = 1 /\ ~options[1].gateway) =>
       ConnectedFor(1) \cap RangeAll(proxies') = {}]_vars

\* the proxies a session created for the REGISTERs of its peer
RegisteredFor(s) == { connProxies[s][j].v : j \in 1..Len(connProxies[s]) }

\* C38: the close of a session removes from the Device Registry only the
\* entries that are a proxy this session created: every other device, under
\* whatever id, is still registered afterwards, with its listeners.
C38_CloseRemovesOwnDevicesOnly ==
  [][(last'.op = "close" /\ last'.s = 1) =>
       \A i \in 1..Len(devices) :
         devices[i].v \notin RegisteredFor(1) =>
           /\ OHas(devices', devices[i].k)
           /\ OGet(devices', devices[i].k) = devices[i].v
           /\ listenersOf(World', devices[i].v) = listenersOf(World, devices[i].v)
    ]_vars

\* C39: a RESPONSE whose reqid is not in the pending table completes no
\* future, leaves the pending table and the rest of the session as they
\* were and raises no error out of the frame handler; so a future that has
\* been completed is never completed again.
C39_StrayResponseIgnored ==
  [][/\ (last'.op = "RESPONSE" /\ last'.rid \notin requests[last'.s]) =>
          /\ ~last'.threw
          /\ requests' = requests
          /\ deferreds' = deferreds
          /\ connDevices' = connDevices
          /\ connProxies' = connProxies
          /\ proxyConnections' = proxyConnections
          /\ sent' = << >>
     /\ \A s \in Sessions : \A r \in DOMAIN deferreds[s] :
          deferreds[s][r].state # "pending" =>
            /\ r \in DOMAIN deferreds'[s]
            /\ deferreds'[s][r].state = deferreds[s][r].state
    ]_vars

\* the session whose proxy the Device Registry binds to the id, 0 if none
OwnerOf(deviceid) ==
  LET k == getDeviceAuthority(World, deviceid).deviceid
  IN IF OHas(devices, k) /\ OGet(devices, k).kind = "WebSocketDeviceProxy"
     THEN OGet(devices, k).s ELSE 0

\* C40: a device registered over one session is removed through the link
\* protocol by that session only: a DEREGISTER of its id on another session
\* is answered with the failure 'Unknown device' and changes neither the
\* Device Registry nor the proxiesByDeviceid of the session that owns it.
C40_DeregisterByOwnerOnly ==
  [][(/\ last'.op = "DEREGISTER"
      /\ OwnerOf(last'.id) \notin {0, last'.s}) =>
       /\ Len(sent') = 1
       /\ sent'[1].frame.method = "RESPONSE"
       /\ ~sent'[1].frame.success
       /\ sent'[1].frame.err = << "Unknown device" >>
       /\ devices' = devices
       /\ connProxies'[OwnerOf(last'.id)] = connProxies[OwnerOf(last'.id)]
    ]_vars
====
